---- MODULE Spec2Model ----
(***************************************************************************)
(* Word-level model of the allocator of src/malloc/mm.c: the heap is an    *)
(* array of 8-byte words, block headers, footers and free-list links are   *)
(* the words the C code reads and writes, and every C function is an       *)
(* operator from a machine state h (a record) to a machine state.          *)
(***************************************************************************)
EXTENDS Integers, Naturals, Sequences, FiniteSets, TLC

VARIABLES mem, heap_start, free_root, live, call, nops, script, prof,
          cache, thr, sh, jobs, kids

\* the allocator with its caller, the proxy cache with its threads, and the
\* shell with its job list and its children
mvars == <<mem, heap_start, free_root, live, call, nops, script, prof>>
cvars == <<cache, thr>>
svars == <<sh, jobs, kids>>
vars == <<mem, heap_start, free_root, live, call, nops, script, prof,
          cache, thr, sh, jobs, kids>>

(***************************************************************************)
(* Bounds of the model.                                                    *)
(***************************************************************************)
\* width in bits of size_t / word_t values in the model (64 in the build)
WordBits == 16
\* the arena starts at address BaseUnits * 16
BaseUnits == 4
\* the arena holds the two sentinel words and at most this many chunks
MaxHeapChunks == 2
\* number of children the shell forks in a run
MaxChildren == 2
\* number of calls a run makes after its script
MaxOps == 3
\* number of allocations the caller keeps live at a time
MaxLive == 3
\* number of proxy threads that serve a request for a cached object
MaxReaders == 2
\* number of requests for objects not yet cached, served one after another
MaxRequests == 12

(***************************************************************************)
(* Basic constants (mm.c:78-119).                                          *)
(***************************************************************************)
NULL == 0
seglist_length == 15
wsize == 8
dsize == 2 * wsize
min_block_size == dsize
chunksize == 4096
alloc_mask == 1
alloc_prev_mask == 2
mini_mask == 4

RECURSIVE Pow2(_)
Pow2(n) == IF n = 0 THEN 1 ELSE 2 * Pow2(n - 1)

TwoW == Pow2(WordBits)
WordMax == TwoW - 1
\* a value reduced to the width of a word (unsigned wrap-around)
W(x) == x % TwoW

\* F applied to the value of v: the steps of a C function run in sequence,
\* each on the state the step before it left
With(v, F(_)) == CHOOSE y \in {F(x) : x \in {v}} : TRUE

RECURSIVE BitAnd(_, _)
BitAnd(a, b) ==
    IF a = 0 \/ b = 0 THEN 0
    ELSE (a % 2) * (b % 2) + 2 * BitAnd(a \div 2, b \div 2)

RECURSIVE BitOr(_, _)
BitOr(a, b) ==
    IF a = 0 THEN b
    ELSE IF b = 0 THEN a
    ELSE (IF a % 2 = 1 \/ b % 2 = 1 THEN 1 ELSE 0) + 2 * BitOr(a \div 2, b \div 2)

BitNot(a) == WordMax - a

size_mask == BitNot(15)

\* a * b reduced to the width of a word, computed without leaving the
\* integers TLC can represent
RECURSIVE MulW(_, _)
MulW(a, b) ==
    IF b = 0 THEN 0
    ELSE W((IF b % 2 = 1 THEN a ELSE 0) + 2 * MulW(a, b \div 2))

(***************************************************************************)
(* The arena of memlib: the bytes [mem_heap_lo, mem_brk), held as words.   *)
(***************************************************************************)
mem_heap_lo == BaseUnits * dsize
\* the value (void *)-1
SBRK_FAIL == WordMax

mem_brk(h) == mem_heap_lo + wsize * Len(h.mem)
mem_heap_hi(h) == mem_brk(h) - 1

InHeap(h, a) == a % wsize = 0 /\ a >= mem_heap_lo /\ a < mem_brk(h)
Idx(a) == (a - mem_heap_lo) \div wsize + 1

\* load and store of one aligned word
Ld(h, a) == IF InHeap(h, a) THEN h.mem[Idx(a)] ELSE 0
St(h, a, v) ==
    IF InHeap(h, a) THEN [h EXCEPT !.mem[Idx(a)] = W(v)]
    ELSE [h EXCEPT !.fault = TRUE]

\* mem_sbrk(incr): the old break, or (void *)-1 when the arena is exhausted;
\* the new words hold whatever the arena held before
mem_sbrk(h, incr) ==
    IF incr >= TwoW \div 2 \/ h.cap - (mem_brk(h) - mem_heap_lo) < incr
    THEN [h |-> [h EXCEPT !.log = Append(@, [incr |-> incr, ok |-> FALSE])],
          p |-> SBRK_FAIL]
    ELSE [h |-> [h EXCEPT !.mem = @ \o [i \in 1..(incr \div wsize) |-> h.junk],
                          !.log = Append(@, [incr |-> incr, ok |-> TRUE])],
          p |-> mem_brk(h)]

(***************************************************************************)
(* Short helper functions (mm.c:183-529).                                  *)
(***************************************************************************)
max(x, y) == IF x > y THEN x ELSE y
min(x, y) == IF x < y THEN x ELSE y
round_up(size, n) == W(n * (W(size + (n - 1)) \div n))

\* pack that leaves the mini bit clear
pack_no_mini(size, alloc, prev_alloc) ==
    BitOr(BitOr(size, IF alloc THEN alloc_mask ELSE 0),
          IF prev_alloc THEN alloc_prev_mask ELSE 0)

pack(size, alloc, prev_alloc) ==
    LET w0 == size
        w1 == IF alloc THEN BitOr(w0, alloc_mask) ELSE w0
        w2 == IF prev_alloc THEN BitOr(w1, alloc_prev_mask) ELSE w1
    IN  IF size = min_block_size THEN BitOr(w2, mini_mask) ELSE w2

extract_size(word) == BitAnd(word, size_mask)
extract_mini(word) == BitAnd(word, mini_mask) \div 4 # 0
extract_alloc(word) == BitAnd(word, alloc_mask) # 0
extract_prev_alloc(word) == BitAnd(word, alloc_prev_mask) \div 2 # 0

get_mini(h, block) == extract_mini(Ld(h, block))
get_size(h, block) ==
    IF extract_mini(Ld(h, block)) THEN min_block_size
    ELSE extract_size(Ld(h, block))
get_alloc(h, block) == extract_alloc(Ld(h, block))
get_prev_alloc(h, block) == extract_prev_alloc(Ld(h, block))

\* offsetof(block_t, payload) is wsize
payload_to_header(bp) == W(bp - wsize)
\* header_to_payload without the header's width
header_to_payload_at_header(block) == block

header_to_payload(block) == W(block + wsize)
header_to_footer(h, block) == W(block + wsize + get_size(h, block) - dsize)
footer_to_header(h, footer) == W(footer + wsize - extract_size(Ld(h, footer)))
get_payload_size(h, block) == W(get_size(h, block) - wsize)

set_prev_alloc(h, block, prev_alloc) ==
    IF prev_alloc THEN St(h, block, BitOr(Ld(h, block), alloc_prev_mask))
    ELSE St(h, block, BitAnd(Ld(h, block), BitNot(alloc_prev_mask)))

write_epilogue(h, block) == St(h, block, pack(0, TRUE, FALSE))

\* write_block that writes the header only
write_block_header_only(h, block, size, alloc, prev_alloc) ==
    St(h, block, pack(size, alloc, prev_alloc))

write_block(h, block, size, alloc, prev_alloc) ==
    With(St(h, block, pack(size, alloc, prev_alloc)), LAMBDA h1 :
        IF ~alloc /\ ~(size = min_block_size)
        THEN St(h1, header_to_footer(h1, block), pack(size, alloc, prev_alloc))
        ELSE h1)

write_footer(h, block) == St(h, header_to_footer(h, block), Ld(h, block))

find_next(h, block) == W(block + get_size(h, block))
find_prev_footer(block) == W(block - wsize)

find_prev_by_footer(h, block) ==
    LET footerp == find_prev_footer(block)
    IN  IF extract_size(Ld(h, footerp)) = 0 THEN NULL
        ELSE footer_to_header(h, footerp)

find_prev(h, block) ==
    LET footerp == find_prev_footer(block)
    IN  IF extract_mini(Ld(h, footerp)) THEN W(footerp - 8)
        ELSE IF extract_size(Ld(h, footerp)) = 0 THEN NULL
        ELSE footer_to_header(h, footerp)

(***************************************************************************)
(* Segregated free lists (mm.c:531-690).                                   *)
(***************************************************************************)
\* block->successor is the word after the header, block->predecessor the
\* word after that
get_next_free(h, block) == BitAnd(Ld(h, W(block + wsize)), BitNot(7))

RECURSIVE BitLength(_)
BitLength(i) == IF i = 0 THEN 0 ELSE 1 + BitLength(i \div 2)

\* get_seglist_ind without the limit of the last bucket
get_seglist_ind_unclamped(size) ==
    (IF size <= 16 THEN 1 ELSE BitLength(size \div 16)) - 1

get_seglist_ind(size) ==
    LET count == IF size <= 16 THEN 1 ELSE BitLength(size \div 16)
    IN  min(count - 1, seglist_length - 1)

\* get_prev_free that reads the predecessor field of every block
get_prev_free_by_field(h, block) == Ld(h, W(block + dsize))

get_prev_free(h, block) ==
    IF get_mini(h, block) THEN BitAnd(Ld(h, block), BitNot(7))
    ELSE Ld(h, W(block + dsize))

\* set_prev_free that writes nothing
set_prev_free_skipped(h, block, prev) == h

set_prev_free(h, block, prev) ==
    IF get_mini(h, block)
    THEN St(h, block, BitOr(BitAnd(Ld(h, block), 7), prev))
    ELSE St(h, W(block + dsize), prev)

set_next_free(h, block, next) ==
    With(St(h, W(block + wsize), next), LAMBDA h1 :
        IF get_mini(h1, block)
        THEN St(h1, W(block + wsize), BitOr(Ld(h1, W(block + wsize)), mini_mask))
        ELSE h1)

set_root(h, ind, block) == [h EXCEPT !.free_root[ind] = block]

\* remove_from_free that leaves the root alone when the head goes
remove_from_free_keeps_root(h, block) ==
    LET prev == get_prev_free(h, block)
        next == get_next_free(h, block)
    IN  IF next = NULL /\ prev = NULL THEN h
        ELSE IF next = NULL THEN set_next_free(h, prev, NULL)
        ELSE IF prev = NULL THEN set_prev_free(h, next, NULL)
        ELSE With(set_next_free(h, prev, next),
                  LAMBDA h1 : set_prev_free(h1, next, prev))

remove_from_free(h, block) ==
    LET prev == get_prev_free(h, block)
        next == get_next_free(h, block)
        seglist_ind == get_seglist_ind(get_size(h, block))
    IN  IF next = NULL /\ prev = NULL THEN set_root(h, seglist_ind, NULL)
        ELSE IF next = NULL THEN set_next_free(h, prev, NULL)
        ELSE IF prev = NULL
             THEN With(set_prev_free(h, next, NULL), LAMBDA h1 :
                      set_root(h1, seglist_ind, next))
        ELSE With(set_next_free(h, prev, next), LAMBDA h1 :
                 set_prev_free(h1, next, prev))

\* add_to_free that leaves the root of a non-empty list where it was
add_to_free_keeps_root(h, block) ==
    LET seglist_ind == get_seglist_ind(get_size(h, block))
    IN  IF h.free_root[seglist_ind] = NULL
        THEN With(set_root(h, seglist_ind, block), LAMBDA h1 :
             With(set_prev_free(h1, h1.free_root[seglist_ind], NULL), LAMBDA h2 :
                  set_next_free(h2, h2.free_root[seglist_ind], NULL)))
        ELSE With(set_prev_free(h, h.free_root[seglist_ind], block), LAMBDA h1 :
             With(set_next_free(h1, block, h1.free_root[seglist_ind]), LAMBDA h2 :
                  set_prev_free(h2, block, NULL)))

\* add_to_free that picks the bucket by the size of the payload
add_to_free_by_payload(h, block) ==
    LET seglist_ind == get_seglist_ind(get_size(h, block) - wsize)
    IN  IF h.free_root[seglist_ind] = NULL
        THEN With(set_root(h, seglist_ind, block), LAMBDA h1 :
             With(set_prev_free(h1, h1.free_root[seglist_ind], NULL), LAMBDA h2 :
                  set_next_free(h2, h2.free_root[seglist_ind], NULL)))
        ELSE With(set_prev_free(h, h.free_root[seglist_ind], block), LAMBDA h1 :
             With(set_next_free(h1, block, h1.free_root[seglist_ind]), LAMBDA h2 :
             With(set_prev_free(h2, block, NULL), LAMBDA h3 :
                  set_root(h3, seglist_ind, block))))

\* add_to_free that links the block behind the head of a list that is not
\* empty
add_to_free_behind_head(h, block) ==
    LET seglist_ind == get_seglist_ind(get_size(h, block))
        head == h.free_root[seglist_ind]
        next == get_next_free(h, head)
    IN  IF head = NULL
        THEN With(set_root(h, seglist_ind, block), LAMBDA h1 :
             With(set_prev_free(h1, block, NULL), LAMBDA h2 :
                  set_next_free(h2, block, NULL)))
        ELSE With(set_next_free(h, head, block), LAMBDA h1 :
             With(set_prev_free(h1, block, head), LAMBDA h2 :
             With(set_next_free(h2, block, next), LAMBDA h3 :
                  IF next = NULL THEN h3 ELSE set_prev_free(h3, next, block))))

add_to_free(h, block) ==
    LET seglist_ind == get_seglist_ind(get_size(h, block))
    IN  IF h.free_root[seglist_ind] = NULL
        THEN With(set_root(h, seglist_ind, block), LAMBDA h1 :
             With(set_prev_free(h1, h1.free_root[seglist_ind], NULL), LAMBDA h2 :
                  set_next_free(h2, h2.free_root[seglist_ind], NULL)))
        ELSE With(set_prev_free(h, h.free_root[seglist_ind], block), LAMBDA h1 :
             With(set_next_free(h1, block, h1.free_root[seglist_ind]), LAMBDA h2 :
             With(set_prev_free(h2, block, NULL), LAMBDA h3 :
                  set_root(h3, seglist_ind, block))))

(***************************************************************************)
(* Coalescing, heap extension, splitting, fit finding (mm.c:713-945).      *)
(* An operator that returns a block returns [h, b].                        *)
(***************************************************************************)
\* coalesce_block that merges nothing
coalesce_block_never(h, block) == [h |-> h, b |-> block]

\* coalesce_block that looks at the next block only
coalesce_block_next_only(h, block) ==
    LET next == find_next(h, block)
        next_alloced == get_alloc(h, next)
    IN  IF ~next_alloced
        THEN LET new_size == W(get_size(h, next) + get_size(h, block))
             IN  With(remove_from_free(h, next), LAMBDA h1 :
                 With(remove_from_free(h1, block), LAMBDA h2 :
                 With(write_block(h2, block, new_size, FALSE, TRUE), LAMBDA h3 :
                      [h |-> add_to_free(h3, block), b |-> block])))
        ELSE [h |-> h, b |-> block]

\* coalesce_block that looks at the previous block only
coalesce_block_prev_only(h, block) ==
    LET prev_alloced == get_prev_alloc(h, block)
    IN  IF ~prev_alloced
        THEN LET prev == find_prev(h, block)
                 new_size == W(get_size(h, block) + get_size(h, prev))
             IN  With(remove_from_free(h, prev), LAMBDA h1 :
                 With(remove_from_free(h1, block), LAMBDA h2 :
                 With(write_block(h2, prev, new_size, FALSE, TRUE), LAMBDA h3 :
                      [h |-> add_to_free(h3, prev), b |-> prev])))
        ELSE [h |-> h, b |-> block]

coalesce_block(h, block) ==
    LET prev_alloced == get_prev_alloc(h, block)
        next == find_next(h, block)
        next_alloced == get_alloc(h, next)
    IN  IF ~next_alloced /\ ~prev_alloced
        THEN LET prev == find_prev(h, block)
                 new_size == W(get_size(h, prev) + get_size(h, block)
                               + get_size(h, next))
             IN  With(remove_from_free(h, prev), LAMBDA h1 :
                 With(remove_from_free(h1, next), LAMBDA h2 :
                 With(remove_from_free(h2, block), LAMBDA h3 :
                 With(write_block(h3, prev, new_size, FALSE, TRUE), LAMBDA h4 :
                      [h |-> add_to_free(h4, prev), b |-> prev]))))
        ELSE IF ~next_alloced
        THEN LET new_size == W(get_size(h, next) + get_size(h, block))
             IN  With(remove_from_free(h, next), LAMBDA h1 :
                 With(remove_from_free(h1, block), LAMBDA h2 :
                 With(write_block(h2, block, new_size, FALSE, TRUE), LAMBDA h3 :
                      [h |-> add_to_free(h3, block), b |-> block])))
        ELSE IF ~prev_alloced
        THEN LET prev == find_prev(h, block)
                 new_size == W(get_size(h, block) + get_size(h, prev))
             IN  With(remove_from_free(h, prev), LAMBDA h1 :
                 With(remove_from_free(h1, block), LAMBDA h2 :
                 With(write_block(h2, prev, new_size, FALSE, TRUE), LAMBDA h3 :
                      [h |-> add_to_free(h3, prev), b |-> prev])))
        ELSE [h |-> h, b |-> block]

\* extend_heap that does not merge the new block with the block before it
extend_heap_no_merge(h, size0) ==
    LET size == round_up(size0, dsize)
    IN  With(mem_sbrk(h, size), LAMBDA r :
        LET bp == r.p
        IN  IF bp = SBRK_FAIL THEN [h |-> r.h, b |-> NULL]
            ELSE LET block == payload_to_header(bp)
                     old_epi == W(bp - 8)
                 IN  With(write_block(r.h, block, size, FALSE,
                                      get_prev_alloc(r.h, old_epi)), LAMBDA h1 :
                     With(add_to_free(h1, block), LAMBDA h2 :
                     With(write_epilogue(h2, find_next(h2, block)), LAMBDA h3 :
                          [h |-> h3, b |-> block]))))

\* extend_heap that leaves the end of the new block without an epilogue
extend_heap_no_epilogue(h, size0) ==
    LET size == round_up(size0, dsize)
    IN  With(mem_sbrk(h, size), LAMBDA r :
        LET bp == r.p
        IN  IF bp = SBRK_FAIL THEN [h |-> r.h, b |-> NULL]
            ELSE LET block == payload_to_header(bp)
                     old_epi == W(bp - 8)
                 IN  With(write_block(r.h, block, size, FALSE,
                                      get_prev_alloc(r.h, old_epi)), LAMBDA h1 :
                     With(add_to_free(h1, block), LAMBDA h2 :
                          coalesce_block(h2, block))))

extend_heap(h, size0) ==
    LET size == round_up(size0, dsize)
    IN  With(mem_sbrk(h, size), LAMBDA r :
        LET bp == r.p
        IN  IF bp = SBRK_FAIL THEN [h |-> r.h, b |-> NULL]
            ELSE LET block == payload_to_header(bp)
                     old_epi == W(bp - 8)
                 IN  With(write_block(r.h, block, size, FALSE,
                                      get_prev_alloc(r.h, old_epi)), LAMBDA h1 :
                     With(add_to_free(h1, block), LAMBDA h2 :
                     With(write_epilogue(h2, find_next(h2, block)), LAMBDA h3 :
                          coalesce_block(h3, block)))))

\* split_block that keeps a rest of the minimum size in the block
split_block_above_min(h, block, asize) ==
    LET block_size == get_size(h, block)
    IN  IF W(block_size - asize) > min_block_size
        THEN With(write_block(h, block, asize, TRUE, TRUE), LAMBDA h1 :
             LET block_next == find_next(h1, block)
             IN  With(write_block(h1, block_next, W(block_size - asize),
                                  FALSE, TRUE), LAMBDA h2 :
                      add_to_free(h2, block_next)))
        ELSE h

\* split_block that leaves the block whole
split_block_never(h, block, asize) == h

split_block(h, block, asize) ==
    LET block_size == get_size(h, block)
    IN  IF W(block_size - asize) >= min_block_size
        THEN With(write_block(h, block, asize, TRUE, TRUE), LAMBDA h1 :
             LET block_next == find_next(h1, block)
             IN  With(write_block(h1, block_next, W(block_size - asize),
                                  FALSE, TRUE), LAMBDA h2 :
                      add_to_free(h2, block_next)))
        ELSE h

\* a larger limit of find_fit's counter
max_check_ten == 9 + 1

max_check == 9

\* the loop of find_fit over the home bucket: the block it returns from
\* inside the loop (ret), or the minimum it holds when the list ends, and
\* the value of checked when the loop is left; fuel bounds the walk by the
\* number of words of the heap
RECURSIVE find_fit_scan(_, _, _, _, _, _)
find_fit_scan(h, asize, block, minb, checked, fuel) ==
    IF block = NULL \/ fuel = 0
    THEN [ret |-> FALSE, min |-> minb, checked |-> checked]
    ELSE IF asize <= get_size(h, block)
    THEN LET m1 == IF minb = NULL THEN block ELSE minb
             m2 == IF get_size(h, block) < get_size(h, m1) THEN block ELSE m1
         IN  IF m2 # NULL /\ checked > max_check
             THEN [ret |-> TRUE, min |-> m2, checked |-> checked]
             ELSE With(get_next_free(h, block), LAMBDA nb :
                  With(m2, LAMBDA m :
                      find_fit_scan(h, asize, nb, m, checked + 1, fuel - 1)))
    ELSE With(get_next_free(h, block), LAMBDA nb :
             find_fit_scan(h, asize, nb, minb, checked + 1, fuel - 1))

\* find_fit that takes the head of the home bucket as it is
find_fit_head_unchecked(h, asize) ==
    LET seglist_ind == get_seglist_ind(asize)
        from == {i \in seglist_ind..(seglist_length - 1) : h.free_root[i] # NULL}
    IN  IF from = {} THEN NULL
        ELSE h.free_root[CHOOSE i \in from : \A j \in from : i <= j]

\* find_fit that searches the home bucket only
find_fit_home_only(h, asize) ==
    find_fit_scan(h, asize, h.free_root[get_seglist_ind(asize)], NULL, 0,
                  Len(h.mem)).min

find_fit(h, asize) ==
    LET seglist_ind == get_seglist_ind(asize)
        larger == {i \in (seglist_ind + 1)..(seglist_length - 1) :
                      h.free_root[i] # NULL}
    IN  With(find_fit_scan(h, asize, h.free_root[seglist_ind], NULL, 0,
                           Len(h.mem)), LAMBDA s :
            IF s.ret THEN s.min
            ELSE IF s.min = NULL /\ larger # {}
            THEN h.free_root[CHOOSE i \in larger : \A j \in larger : i <= j]
            ELSE s.min)

\* update_next that writes the footer and leaves the next block's bit
update_next_footer_only(h, block, alloc) ==
    IF ~alloc /\ ~get_mini(h, block) THEN write_footer(h, block) ELSE h

\* update_next that takes the payload of the next block for its header
update_next_in_payload(h, block, alloc) ==
    With(set_prev_alloc(h, header_to_payload(find_next(h, block)), alloc),
         LAMBDA h1 :
        IF ~alloc /\ ~get_mini(h1, block) THEN write_footer(h1, block) ELSE h1)

update_next(h, block, alloc) ==
    With(set_prev_alloc(h, find_next(h, block), alloc), LAMBDA h1 :
        IF ~alloc /\ ~get_mini(h1, block) THEN write_footer(h1, block) ELSE h1)

(***************************************************************************)
(* The public operations (mm.c:1203-1459). An operation that returns a     *)
(* pointer returns [h, p]; mm_init returns [h, ok].                        *)
(***************************************************************************)
free_root_init(h) == [h EXCEPT !.free_root = [i \in 0..(seglist_length - 1) |-> NULL]]

mm_init(h) ==
    With(mem_sbrk(h, 2 * wsize), LAMBDA r :
    With(free_root_init(r.h), LAMBDA h0 :
        LET start == r.p
        IN  IF start = SBRK_FAIL THEN [h |-> h0, ok |-> FALSE]
            ELSE With(St(h0, start, pack(0, TRUE, TRUE)), LAMBDA h1 :
                 With(St(h1, W(start + wsize), pack(0, TRUE, TRUE)), LAMBDA h2 :
                 With([h2 EXCEPT !.heap_start = W(start + wsize)], LAMBDA h3 :
                 With(extend_heap(h3, chunksize), LAMBDA e :
                      [h |-> e.h, ok |-> e.b # NULL]))))))

\* malloc_place that leaves the header out of the adjusted size
malloc_place_no_header(h0, size) ==
    LET asize == max(round_up(size, dsize), min_block_size)
    IN  With(find_fit(h0, asize), LAMBDA fit :
        With(IF fit = NULL
             THEN extend_heap(h0, max(asize, chunksize))
             ELSE [h |-> h0, b |-> fit], LAMBDA e :
            LET block == e.b
            IN  IF block = NULL THEN [h |-> e.h, p |-> NULL]
                ELSE With(remove_from_free(e.h, block), LAMBDA h1 :
                     With(write_block(h1, block, get_size(h1, block),
                                      TRUE, TRUE), LAMBDA h2 :
                     With(split_block(h2, block, asize), LAMBDA h3 :
                     With(update_next(h3, block, TRUE), LAMBDA h4 :
                          [h |-> h4, p |-> header_to_payload(block)]))))))

\* malloc_place that uses the block of a failed extend_heap
malloc_place_unchecked(h0, size) ==
    LET asize == max(round_up(W(size + wsize), dsize), min_block_size)
    IN  With(find_fit(h0, asize), LAMBDA fit :
        With(IF fit = NULL
             THEN extend_heap(h0, max(asize, chunksize))
             ELSE [h |-> h0, b |-> fit], LAMBDA e :
            LET block == e.b
            IN  With(remove_from_free(e.h, block), LAMBDA h1 :
                With(write_block(h1, block, get_size(h1, block),
                                 TRUE, TRUE), LAMBDA h2 :
                With(split_block(h2, block, asize), LAMBDA h3 :
                With(update_next(h3, block, TRUE), LAMBDA h4 :
                     [h |-> h4, p |-> header_to_payload(block)]))))))

\* malloc_place that grows the heap by the adjusted size alone
malloc_place_grows_by_asize(h0, size) ==
    LET asize == max(round_up(W(size + wsize), dsize), min_block_size)
    IN  With(find_fit(h0, asize), LAMBDA fit :
        With(IF fit = NULL
             THEN extend_heap(h0, asize)
             ELSE [h |-> h0, b |-> fit], LAMBDA e :
            LET block == e.b
            IN  IF block = NULL THEN [h |-> e.h, p |-> NULL]
                ELSE With(remove_from_free(e.h, block), LAMBDA h1 :
                     With(write_block(h1, block, get_size(h1, block),
                                      TRUE, TRUE), LAMBDA h2 :
                     With(split_block(h2, block, asize), LAMBDA h3 :
                     With(update_next(h3, block, TRUE), LAMBDA h4 :
                          [h |-> h4, p |-> header_to_payload(block)]))))))

\* malloc once the heap is initialized and the request is not empty
\* (mm.c:1287-1326)
malloc_place(h0, size) ==
    LET asize == max(round_up(W(size + wsize), dsize), min_block_size)
    IN  With(find_fit(h0, asize), LAMBDA fit :
        With(IF fit = NULL
             THEN extend_heap(h0, max(asize, chunksize))
             ELSE [h |-> h0, b |-> fit], LAMBDA e :
            LET block == e.b
            IN  IF block = NULL THEN [h |-> e.h, p |-> NULL]
                ELSE With(remove_from_free(e.h, block), LAMBDA h1 :
                     With(write_block(h1, block, get_size(h1, block),
                                      TRUE, TRUE), LAMBDA h2 :
                     With(split_block(h2, block, asize), LAMBDA h3 :
                     With(update_next(h3, block, TRUE), LAMBDA h4 :
                          [h |-> h4, p |-> header_to_payload(block)]))))))

\* malloc that places a request of size 0 like any other
mm_malloc_no_zero_check(h, size) ==
    With(IF h.heap_start = NULL THEN mm_init(h).h ELSE h, LAMBDA h0 :
        malloc_place(h0, size))

\* malloc that takes the heap as it finds it
mm_malloc_no_lazy_init(h, size) ==
    IF size = 0 THEN [h |-> h, p |-> NULL]
    ELSE malloc_place(h, size)

mm_malloc(h, size) ==
    With(IF h.heap_start = NULL THEN mm_init(h).h ELSE h, LAMBDA h0 :
        IF size = 0 THEN [h |-> h0, p |-> NULL]
        ELSE malloc_place(h0, size))

\* free that does not merge the block with its neighbours
mm_free_no_merge(h, bp) ==
    IF bp = NULL THEN h
    ELSE LET block == payload_to_header(bp)
             size == get_size(h, block)
             prev_alloc == get_prev_alloc(h, block)
         IN  With(write_block(h, block, size, FALSE, prev_alloc), LAMBDA h1 :
             With(add_to_free(h1, block), LAMBDA h2 :
                  update_next(h2, block, FALSE)))

mm_free(h, bp) ==
    IF bp = NULL THEN h
    ELSE LET block == payload_to_header(bp)
             size == get_size(h, block)
             prev_alloc == get_prev_alloc(h, block)
         IN  With(write_block(h, block, size, FALSE, prev_alloc), LAMBDA h1 :
             With(add_to_free(h1, block), LAMBDA h2 :
             With(coalesce_block(h2, block), LAMBDA c :
                  update_next(c.h, c.b, FALSE))))

\* the low nb bytes of a word (little-endian), and a word whose low nb
\* bytes are those of src and whose other bytes are those of dst
LowBytes(w, nb) == IF 8 * nb >= WordBits THEN w ELSE w % Pow2(8 * nb)
MergeLow(dst, src, nb) == (dst - LowBytes(dst, nb)) + LowBytes(src, nb)

\* the words [dst, dst + n) of the heap replaced by word(k), k counting the
\* words of the range, the last one merged when n is no multiple of wsize
StoreBytes(h, dst, n, word(_)) ==
    LET full == n \div wsize
        rest == n % wsize
        nw == full + (IF rest > 0 THEN 1 ELSE 0)
        bad == n > 0 /\ ~(InHeap(h, dst) /\ dst + n <= mem_brk(h))
    IN  [h EXCEPT !.fault = @ \/ bad,
                  !.mem =
            [i \in 1..Len(h.mem) |->
                LET a == mem_heap_lo + wsize * (i - 1)
                    k == (a - dst) \div wsize
                IN  IF a >= dst /\ k < full THEN W(word(k))
                    ELSE IF a >= dst /\ k < nw
                    THEN MergeLow(h.mem[i], W(word(k)), rest)
                    ELSE h.mem[i]]]

mem_memcpy(h, dst, src, n) ==
    LET word(k) == Ld(h, W(src + wsize * k))
    IN  StoreBytes(h, dst, n, word)

mem_memset(h, dst, c, n) ==
    LET word(k) == c * 257
    IN  StoreBytes(h, dst, n, word)

\* a read of a block header by a public operation itself: a fault when the
\* address is no word of the heap (a header read through NULL is one)
Probe(h, a) == IF InHeap(h, a) THEN h ELSE [h EXCEPT !.fault = TRUE]

\* realloc that releases the old block before it copies from it
mm_realloc_free_first(h, ptr, size) ==
    LET block == payload_to_header(ptr)
    IN  IF size = 0 THEN [h |-> mm_free(h, ptr), p |-> NULL]
        ELSE IF ptr = NULL THEN mm_malloc(h, size)
        ELSE With(mm_malloc(h, size), LAMBDA m :
                 LET newptr == m.p
                 IN  IF newptr = NULL THEN [h |-> m.h, p |-> NULL]
                     ELSE With(Probe(m.h, block), LAMBDA hr :
                          LET size0 == get_payload_size(hr, block)
                              copysize == IF size < size0 THEN size ELSE size0
                          IN  With(mm_free(hr, ptr), LAMBDA h1 :
                                   [h |-> mem_memcpy(h1, newptr, ptr, copysize),
                                    p |-> newptr])))

\* realloc that reads the size of the old block before it looks at its
\* arguments
mm_realloc_reads_first(h, ptr, size) ==
    LET block == payload_to_header(ptr)
    IN  With(Probe(h, block), LAMBDA hr :
        LET size0 == get_payload_size(hr, block)
            copysize == IF size < size0 THEN size ELSE size0
        IN  IF size = 0 THEN [h |-> mm_free(hr, ptr), p |-> NULL]
            ELSE IF ptr = NULL THEN mm_malloc(hr, size)
            ELSE With(mm_malloc(hr, size), LAMBDA m :
                     LET newptr == m.p
                     IN  IF newptr = NULL THEN [h |-> m.h, p |-> NULL]
                         ELSE With(mem_memcpy(m.h, newptr, ptr, copysize), LAMBDA h1 :
                                  [h |-> mm_free(h1, ptr), p |-> newptr])))

\* realloc that releases the old block when the new one cannot be had
mm_realloc_frees_on_failure(h, ptr, size) ==
    LET block == payload_to_header(ptr)
    IN  IF size = 0 THEN [h |-> mm_free(h, ptr), p |-> NULL]
        ELSE IF ptr = NULL THEN mm_malloc(h, size)
        ELSE With(mm_malloc(h, size), LAMBDA m :
                 LET newptr == m.p
                 IN  IF newptr = NULL THEN [h |-> mm_free(m.h, ptr), p |-> NULL]
                     ELSE With(Probe(m.h, block), LAMBDA hr :
                          LET size0 == get_payload_size(hr, block)
                              copysize == IF size < size0 THEN size ELSE size0
                          IN  With(mem_memcpy(hr, newptr, ptr, copysize), LAMBDA h1 :
                                   [h |-> mm_free(h1, ptr), p |-> newptr])))

mm_realloc(h, ptr, size) ==
    LET block == payload_to_header(ptr)
    IN  IF size = 0 THEN [h |-> mm_free(h, ptr), p |-> NULL]
        ELSE IF ptr = NULL THEN mm_malloc(h, size)
        ELSE With(mm_malloc(h, size), LAMBDA m :
                 LET newptr == m.p
                 IN  IF newptr = NULL THEN [h |-> m.h, p |-> NULL]
                     ELSE With(Probe(m.h, block), LAMBDA hr :
                          LET size0 == get_payload_size(hr, block)
                              copysize == IF size < size0 THEN size ELSE size0
                          IN  With(mem_memcpy(hr, newptr, ptr, copysize), LAMBDA h1 :
                                   [h |-> mm_free(h1, ptr), p |-> newptr])))

\* calloc that takes the product as it comes
mm_calloc_unguarded(h, elements, size) ==
    LET asize == MulW(elements, size)
    IN  IF elements = 0 THEN [h |-> h, p |-> NULL]
        ELSE With(mm_malloc(h, asize), LAMBDA m :
                 LET bp == m.p
                 IN  IF bp = NULL THEN [h |-> m.h, p |-> NULL]
                     ELSE [h |-> mem_memset(m.h, bp, 0, asize), p |-> bp])

\* calloc that returns the block as malloc left it
mm_calloc_no_memset(h, elements, size) ==
    LET asize == MulW(elements, size)
    IN  IF elements = 0 THEN [h |-> h, p |-> NULL]
        ELSE IF asize \div elements # size THEN [h |-> h, p |-> NULL]
        ELSE With(mm_malloc(h, asize), LAMBDA m : [h |-> m.h, p |-> m.p])

mm_calloc(h, elements, size) ==
    LET asize == MulW(elements, size)
    IN  IF elements = 0 THEN [h |-> h, p |-> NULL]
        ELSE IF asize \div elements # size THEN [h |-> h, p |-> NULL]
        ELSE With(mm_malloc(h, asize), LAMBDA m :
                 LET bp == m.p
                 IN  IF bp = NULL THEN [h |-> m.h, p |-> NULL]
                     ELSE [h |-> mem_memset(m.h, bp, 0, asize), p |-> bp])

(***************************************************************************)
(* The proxy cache (src/proxy/cache.c): a doubly linked list of blocks,    *)
(* most recently used first. A cache state s holds head, tail, cache_size, *)
(* the owner of cache_lock (0 when free) and the blocks by number; a block *)
(* holds the fields of cache_block_t and which of its allocations (the     *)
(* struct, the payload, the host, path and port strings) are still         *)
(* allocated. A critical section of ref_lock is one step: it reads and     *)
(* writes only the block it locks. s.fault records an access through a     *)
(* NULL pointer or to freed memory, the block's mutex included. A freed    *)
(* block's number is not given out again.                                  *)
(***************************************************************************)
MAX_OBJECT_SIZE == 100 * 1024
MAX_CACHE_SIZE == 1024 * 1024

\* a request allocates at most one block
MaxCacheBlocks == MaxRequests + MaxReaders
CacheBlocks == 1..MaxCacheBlocks
\* a block number that malloc has not given out yet
NoBlock == [used |-> FALSE, key |-> 0, size |-> 0, prev |-> NULL, next |-> NULL,
            refcnt |-> 0, dead |-> FALSE,
            alive |-> FALSE, payload |-> FALSE, meta |-> FALSE]

\* junk is the value a field holds that was never written
init_cache(junk) ==
    [head |-> NULL, tail |-> NULL, cache_size |-> 0, lock |-> 0,
     blk |-> [i \in CacheBlocks |-> NoBlock], fault |-> FALSE, junk |-> junk]

\* block is a pointer to an allocated cache_block_t
Valid(s, block) == block \in CacheBlocks /\ s.blk[block].alive
\* an access through pointer block
Touch(s, block) == IF Valid(s, block) THEN s ELSE [s EXCEPT !.fault = TRUE]
\* block->f = v for the fields of r
SetFields(s, block, r) ==
    IF Valid(s, block)
    THEN [s EXCEPT !.blk[block] =
             [f \in DOMAIN @ |-> IF f \in DOMAIN r THEN r[f] ELSE @[f]]]
    ELSE [s EXCEPT !.fault = TRUE]
\* block->f, 0 when the pointer is not valid
Field(s, block, f) == IF block \in CacheBlocks THEN s.blk[block][f] ELSE 0

\* free_block with ref_lock held from its first line to its unlock
free_block(s, block) ==
    IF ~Valid(s, block) THEN [s EXCEPT !.fault = TRUE]
    ELSE IF s.blk[block].refcnt = 0
    THEN [s EXCEPT !.blk[block].meta = FALSE,
                   !.blk[block].payload = FALSE,
                   !.blk[block].alive = FALSE]
    ELSE [s EXCEPT !.blk[block].meta = FALSE,
                   !.blk[block].dead = TRUE]

insert_head(s, block) ==
    IF s.head = NULL
    THEN With([s EXCEPT !.head = block, !.tail = block], LAMBDA s1 :
              SetFields(s1, block, [prev |-> NULL, next |-> NULL]))
    ELSE With(SetFields(s, s.head, [prev |-> block]), LAMBDA s1 :
         With(SetFields(s1, block, [next |-> s1.head, prev |-> NULL]), LAMBDA s2 :
              [s2 EXCEPT !.head = block]))

visit_keeps_place(s, block) == s

visit(s, block) ==
    LET prev == Field(s, block, "prev")
        next == Field(s, block, "next")
    IN  IF block = s.head THEN s
        ELSE With(IF block = s.tail
                  THEN With(SetFields(s, prev, [next |-> NULL]), LAMBDA s1 :
                            [s1 EXCEPT !.tail = prev])
                  ELSE With(SetFields(s, prev, [next |-> next]), LAMBDA s1 :
                            SetFields(s1, next, [prev |-> prev])), LAMBDA s2 :
                  insert_head(s2, block))

\* increment_ref with ref_lock held
increment_ref(s, block) ==
    SetFields(s, block, [refcnt |-> Field(s, block, "refcnt") + 1])

\* decrement_ref between its lock and its unlock
decrement_ref_body(s, block) ==
    With(SetFields(s, block, [refcnt |-> Field(s, block, "refcnt") - 1]), LAMBDA s1 :
        IF Field(s1, block, "dead") /\ Field(s1, block, "refcnt") # 0
        THEN IF Valid(s1, block)
             THEN [s1 EXCEPT !.blk[block].payload = FALSE,
                             !.blk[block].alive = FALSE]
             ELSE [s1 EXCEPT !.fault = TRUE]
        ELSE s1)

\* decrement_ref: the lock, the body, and the unlock of block->ref_lock
decrement_ref(s, block) ==
    With(Touch(s, block), LAMBDA s1 :
    With(decrement_ref_body(s1, block), LAMBDA s2 :
         Touch(s2, block)))

\* the first block from block on whose host, port and path are key
RECURSIVE find_block(_, _, _, _)
find_block(s, block, key, fuel) ==
    IF block = NULL \/ fuel = 0 THEN NULL
    ELSE IF s.blk[block].key = key THEN block
    ELSE find_block(s, s.blk[block].next, key, fuel - 1)

in_cache(s, key) ==
    \* the walk compares the strings of every block up to the match
    LET block == find_block(s, s.head, key, MaxCacheBlocks)
    IN  IF block = NULL
        THEN [s |-> s, ret |-> 0, match_block |-> NULL]
        ELSE With(visit(s, block), LAMBDA s1 :
             With(increment_ref(s1, block), LAMBDA s2 :
                  [s |-> s2, ret |-> 1, match_block |-> block]))

removeLRU(s) ==
    LET removed == s.tail
    IN  IF s.tail = NULL THEN s
        ELSE With(SetFields(s, Field(s, s.tail, "prev"), [next |-> NULL]), LAMBDA s1 :
             With([s1 EXCEPT !.tail = Field(s1, removed, "prev"),
                             !.cache_size = @ - Field(s1, removed, "size")], LAMBDA s2 :
                  free_block(s2, removed)))

\* the loop of makeSpace; a loop that does not end within fuel rounds never ends
RECURSIVE makeSpace(_, _, _)
makeSpace(s, space, fuel) ==
    IF ~(MAX_CACHE_SIZE - s.cache_size <= space) THEN s
    ELSE IF fuel = 0 THEN [s EXCEPT !.fault = TRUE]
    ELSE With(removeLRU(s), LAMBDA s1 : makeSpace(s1, space, fuel - 1))

\* the block number malloc(sizeof(cache_block_t)) returns
NewBlock(s) == CHOOSE b \in CacheBlocks :
                  /\ ~s.blk[b].used
                  /\ \A c \in CacheBlocks : ~s.blk[c].used => b <= c
HasNewBlock(s) == \E b \in CacheBlocks : ~s.blk[b].used

insert(s, key, payload_size) ==
    With(in_cache(s, key), LAMBDA r :
        IF r.ret = 1 THEN decrement_ref(r.s, r.match_block)
        ELSE With(makeSpace(r.s, payload_size, MaxCacheBlocks + 1), LAMBDA s1 :
             With(NewBlock(s1), LAMBDA block :
             \* refcnt, prev and next are not written here
             With([s1 EXCEPT !.blk[block] =
                      [used |-> TRUE, key |-> key, size |-> payload_size,
                       prev |-> NULL, next |-> NULL,
                       refcnt |-> s1.junk, dead |-> FALSE,
                       alive |-> TRUE, payload |-> TRUE, meta |-> TRUE],
                      !.cache_size = @ + payload_size], LAMBDA s2 :
                  insert_head(s2, block)))))

(***************************************************************************)
(* The proxy's threads (src/proxy/proxy.c): each serves its requests one   *)
(* after another; a request is the key of an object and the number of      *)
(* bytes the server sends for it. The readers ask for object 1; one more   *)
(* thread asks for objects 1..MaxRequests, each of MAX_OBJECT_SIZE bytes.  *)
(***************************************************************************)
Readers == 1..MaxReaders
Threads == 1..(MaxReaders + 1)
Request(key, size) == [key |-> key, size |-> size]
Workload(t) ==
    IF t \in Readers THEN <<Request(1, MAX_OBJECT_SIZE)>>
    ELSE [i \in 1..MaxRequests |-> Request(i, MAX_OBJECT_SIZE)]
\* the same with objects 1 and 2 of first bytes, object 2 being the one the
\* readers ask for, and before them an object too large to be stored
SizedWorkload(first, t) ==
    IF t \in Readers THEN <<Request(2, first)>>
    ELSE <<Request(MaxRequests + 1, MAX_OBJECT_SIZE + 1)>> \o
         [i \in 1..MaxRequests |->
             Request(i, IF i <= 2 THEN first ELSE MAX_OBJECT_SIZE)]
\* half an object; and the size that leaves, with a second one of that size
\* and nine whole objects, exactly MAX_OBJECT_SIZE bytes of the cache unused
FirstSizes == {MAX_OBJECT_SIZE \div 2,
               (MAX_CACHE_SIZE - 10 * MAX_OBJECT_SIZE) \div 2}
Workloads ==
    {[t \in Threads |-> Workload(t)]} \cup
    {[t \in Threads |-> SizedWorkload(first, t)] : first \in FirstSizes}
\* values an int that was never written may hold
JunkValues == {0, 1}

Thread(pc, todo, block) == [pc |-> pc, todo |-> todo, block |-> block]
\* the request a thread is serving
Serving(t) == Head(thr[t].todo)
Done(t) == Thread("parse", Tail(thr[t].todo), NULL)

ProxyIdle ==
    /\ cache = init_cache(0)
    /\ thr = [t \in Threads |-> Thread("exit", <<>>, NULL)]

\* serve: pthread_mutex_lock(&cache_lock) before in_cache
ServeLock(t) ==
    /\ thr[t].pc = "parse" /\ thr[t].todo # <<>>
    /\ cache.lock = 0
    /\ cache' = [cache EXCEPT !.lock = t]
    /\ thr' = [thr EXCEPT ![t].pc = "in_cache"]
    /\ UNCHANGED <<mvars, svars>>

\* serve: in_cache and the unlock of cache_lock on either branch
ServeLookup(t) ==
    /\ thr[t].pc = "in_cache" /\ cache.lock = t
    /\ \E r \in {in_cache(cache, Serving(t).key)} :
          /\ cache' = [r.s EXCEPT !.lock = 0]
          /\ thr' = [thr EXCEPT ![t] =
                        IF r.ret = 1
                        THEN Thread("rio_writen", thr[t].todo, r.match_block)
                        ELSE Thread("forward", thr[t].todo, NULL)]
    /\ UNCHANGED <<mvars, svars>>

\* serve: rio_writen(client->connfd, block->payload, block->size)
ServeSend(t) ==
    /\ thr[t].pc = "rio_writen"
    /\ cache' = IF Valid(cache, thr[t].block) /\ cache.blk[thr[t].block].payload
                THEN cache ELSE [cache EXCEPT !.fault = TRUE]
    /\ thr' = [thr EXCEPT ![t].pc = "decrement_ref"]
    /\ UNCHANGED <<mvars, svars>>

\* serve: decrement_ref(block) and the return
ServeRelease(t) ==
    /\ thr[t].pc = "decrement_ref"
    /\ cache' = decrement_ref(cache, thr[t].block)
    /\ thr' = [thr EXCEPT ![t] = Done(t)]
    /\ UNCHANGED <<mvars, svars>>

\* forward_to_client: the object is read and sent; it is stored when it is
\* no longer than MAX_OBJECT_SIZE, and cache_lock is taken for that
ForwardLock(t) ==
    /\ thr[t].pc = "forward"
    /\ IF Serving(t).size <= MAX_OBJECT_SIZE
       THEN /\ cache.lock = 0
            /\ cache' = [cache EXCEPT !.lock = t]
            /\ thr' = [thr EXCEPT ![t].pc = "insert"]
       ELSE /\ thr' = [thr EXCEPT ![t] = Done(t)]
            /\ UNCHANGED cache
    /\ UNCHANGED <<mvars, svars>>

\* forward_to_client: insert, the unlock of cache_lock, and the return
ForwardInsert(t) ==
    /\ thr[t].pc = "insert" /\ cache.lock = t
    /\ HasNewBlock(cache)
    /\ \E s \in {insert(cache, Serving(t).key, Serving(t).size)} :
          cache' = [s EXCEPT !.lock = 0]
    /\ thr' = [thr EXCEPT ![t] = Done(t)]
    /\ UNCHANGED <<mvars, svars>>

(***************************************************************************)
(* The shell (src/tsh/tsh.c). sh holds the place of main and eval (pc),    *)
(* whether SIGCHLD, SIGINT and SIGTSTP are blocked in the mask of main     *)
(* (blocked), the global pid, the kind of the command being evaluated, the *)
(* place of sigchld_handler (hpc) with the status waitpid gave it, the     *)
(* pending signals, and whether a handler has returned during sigsuspend   *)
(* (woken). jobs is the job list of tsh_helper, kids the state of each     *)
(* child process.                                                          *)
(***************************************************************************)
Pids == 1..MaxChildren

\* the job list: jobs are records [jid, pid, state], state FG, BG or ST
fg_job(J) ==
    IF \E j \in J : j.state = "FG"
    THEN (CHOOSE j \in J : j.state = "FG").jid ELSE 0
job_from_pid(J, p) ==
    IF \E j \in J : j.pid = p THEN (CHOOSE j \in J : j.pid = p).jid ELSE 0
job_get_pid(J, jid) == (CHOOSE j \in J : j.jid = jid).pid
NextJid(J) ==
    IF J = {} THEN 1
    ELSE 1 + (CHOOSE m \in {j.jid : j \in J} : \A j \in J : j.jid <= m)
add_job(J, p, state) ==
    J \cup {[jid |-> NextJid(J), pid |-> p, state |-> state]}
delete_job(J, jid) == {j \in J : j.jid # jid}
job_set_state(J, jid, state) ==
    {IF j.jid = jid THEN [j EXCEPT !.state = state] ELSE j : j \in J}

\* kill(-p, sig) as the child takes it at once: SIGINT ends a running
\* child, SIGTSTP stops it, SIGCONT continues a stopped one
kill(K, p, sig) ==
    IF p \notin Pids THEN K
    ELSE IF sig = "SIGINT" /\ K[p] = "running" THEN [K EXCEPT ![p] = "zombie"]
    ELSE IF sig = "SIGTSTP" /\ K[p] = "running" THEN [K EXCEPT ![p] = "stopping"]
    ELSE IF sig = "SIGCONT" /\ K[p] \in {"stopped", "stopping"}
    THEN [K EXCEPT ![p] = "running"]
    ELSE K

\* eval without the sigprocmask(SIG_BLOCK, &mask_3, &prev) before fork
eval_block_skipped(s) == s

\* eval: sigprocmask(SIG_BLOCK, &mask_3, &prev)
eval_block(s) == [s EXCEPT !.blocked = TRUE]

\* sigchld_handler: the job of the child waitpid reported is deleted when
\* the child has exited or was killed, and is stopped when the child stopped
sigchld_update(J, p, status) ==
    IF status = "stopped" THEN job_set_state(J, job_from_pid(J, p), "ST")
    ELSE delete_job(J, job_from_pid(J, p))

\* the children waitpid(-1, &status, WUNTRACED | WNOHANG) can report, and
\* those that exist and have nothing to report
Reportable == {k \in Pids : kids[k] \in {"zombie", "stopping"}}
Unreaped == {k \in Pids : kids[k] \in {"running", "stopped", "zombie", "stopping"}}

ShellStart ==
    [pc |-> "prompt", blocked |-> FALSE, pid |-> 0, kind |-> "FG",
     hpc |-> "none", status |-> "exited", chld |-> FALSE, int |-> FALSE,
     tstp |-> FALSE, woken |-> FALSE]

\* the shell's runs are not part of the allocator's or the proxy's
ShellIdle ==
    /\ sh = ShellStart
    /\ jobs = {}
    /\ kids = [k \in Pids |-> "none"]

\* main is not interrupted by a handler
MainRuns == sh.hpc = "none"
\* a handler returns: sigsuspend will return
Wake(s) == [s EXCEPT !.woken = @ \/ s.pc = "suspend"]

\* main reads a command that is no builtin; eval blocks the three signals
ReadCommand ==
    /\ MainRuns /\ sh.pc = "prompt"
    /\ \E k \in Pids : kids[k] = "none"
    /\ \E kind \in {"FG", "BG"} :
          sh' = [eval_block(sh) EXCEPT !.pc = "fork", !.kind = kind]
    /\ UNCHANGED <<jobs, kids, mvars, cvars>>

\* builtin_command: fg of a listed job, with the first test of its loop
BuiltinFg ==
    /\ MainRuns /\ sh.pc = "prompt"
    /\ \E j \in jobs :
          /\ kids' = kill(kids, j.pid, "SIGCONT")
          /\ jobs' = job_set_state(jobs, j.jid, "FG")
          /\ sh' = [eval_block(sh) EXCEPT !.pc = "wait", !.pid = 0,
                       !.chld = @ \/ kids'[j.pid] # kids[j.pid]]
    /\ UNCHANGED <<mvars, cvars>>

\* builtin_command: bg of a listed job
BuiltinBg ==
    /\ MainRuns /\ sh.pc = "prompt"
    /\ \E j \in jobs :
          /\ kids' = kill(kids, j.pid, "SIGCONT")
          /\ jobs' = job_set_state(jobs, j.jid, "BG")
          /\ sh' = [eval_block(sh) EXCEPT !.pc = "restore",
                       !.chld = @ \/ kids'[j.pid] # kids[j.pid]]
    /\ UNCHANGED <<mvars, cvars>>

\* eval: pid = fork(), in the parent
Fork ==
    /\ MainRuns /\ sh.pc = "fork"
    /\ \E k \in {k \in Pids : kids[k] = "none" /\ \A m \in 1..(k - 1) : kids[m] # "none"} :
          /\ kids' = [kids EXCEPT ![k] = "running"]
          /\ sh' = [sh EXCEPT !.pc = "add_job", !.pid = k]
    /\ UNCHANGED <<jobs, mvars, cvars>>

\* eval: add_job(pid, FG or BG, cmdline) and pid = 0
AddJob ==
    /\ MainRuns /\ sh.pc = "add_job"
    /\ jobs' = add_job(jobs, sh.pid, sh.kind)
    /\ sh' = [sh EXCEPT !.pc = "wait", !.pid = 0]
    /\ UNCHANGED <<kids, mvars, cvars>>

\* eval and builtin_command: while (!pid && (fg_job() != 0)) sigsuspend(&prev)
WaitTest ==
    /\ MainRuns /\ sh.pc = "wait"
    /\ sh' = IF sh.pid = 0 /\ fg_job(jobs) # 0
             THEN [sh EXCEPT !.pc = "suspend", !.blocked = FALSE, !.woken = FALSE]
             ELSE [sh EXCEPT !.pc = "restore"]
    /\ UNCHANGED <<jobs, kids, mvars, cvars>>

\* sigsuspend returns after a handler has returned, with the mask it had
SuspendReturn ==
    /\ MainRuns /\ sh.pc = "suspend" /\ sh.woken
    /\ sh' = [sh EXCEPT !.pc = "wait", !.blocked = TRUE, !.woken = FALSE]
    /\ UNCHANGED <<jobs, kids, mvars, cvars>>

\* eval: sigprocmask(SIG_SETMASK, &prev, NULL) and the return to main
Restore ==
    /\ MainRuns /\ sh.pc = "restore"
    /\ sh' = [sh EXCEPT !.pc = "prompt", !.blocked = FALSE]
    /\ UNCHANGED <<jobs, kids, mvars, cvars>>

\* a child exits or is killed: the kernel sends SIGCHLD
KidExits ==
    /\ \E k \in Pids :
          /\ kids[k] \in {"running", "stopped", "stopping"}
          /\ kids' = [kids EXCEPT ![k] = "zombie"]
    /\ sh' = [sh EXCEPT !.chld = TRUE]
    /\ UNCHANGED <<jobs, mvars, cvars>>

\* a child is stopped by a signal: the kernel sends SIGCHLD
KidStops ==
    /\ \E k \in Pids :
          /\ kids[k] = "running"
          /\ kids' = [kids EXCEPT ![k] = "stopping"]
    /\ sh' = [sh EXCEPT !.chld = TRUE]
    /\ UNCHANGED <<jobs, mvars, cvars>>

\* ctrl-c or ctrl-z at the terminal
UserSignal ==
    /\ \/ ~sh.int /\ sh' = [sh EXCEPT !.int = TRUE]
       \/ ~sh.tstp /\ sh' = [sh EXCEPT !.tstp = TRUE]
    /\ UNCHANGED <<jobs, kids, mvars, cvars>>

\* sigint_handler and sigtstp_handler: the signal is passed on to the
\* foreground job, if there is one; the child takes it now or not at all
SignalHandler ==
    /\ ~sh.blocked
    /\ \E sig \in {"SIGINT", "SIGTSTP"} :
          /\ IF sig = "SIGINT" THEN sh.int ELSE sh.tstp
          /\ \E K \in {kids, IF fg_job(jobs) > 0
                             THEN kill(kids, job_get_pid(jobs, fg_job(jobs)), sig)
                             ELSE kids} :
                /\ kids' = K
                /\ sh' = [Wake(sh) EXCEPT !.int = IF sig = "SIGINT" THEN FALSE ELSE @,
                                          !.tstp = IF sig = "SIGTSTP" THEN FALSE ELSE @,
                                          !.chld = @ \/ K # kids]
    /\ UNCHANGED <<jobs, mvars, cvars>>

\* SIGCHLD is delivered: sigchld_handler starts
SigchldEnter ==
    /\ sh.chld /\ ~sh.blocked /\ sh.hpc = "none"
    /\ sh' = [sh EXCEPT !.chld = FALSE, !.hpc = "waitpid"]
    /\ UNCHANGED <<jobs, kids, mvars, cvars>>

\* sigchld_handler: pid = waitpid(-1, &status, WUNTRACED | WNOHANG); the
\* handler returns when no child has anything to report
Waitpid ==
    /\ sh.hpc = "waitpid"
    /\ IF Reportable # {}
       THEN \E k \in Reportable :
               /\ kids' = [kids EXCEPT ![k] = IF @ = "zombie" THEN "reaped"
                                              ELSE "stopped"]
               /\ sh' = [sh EXCEPT !.pid = k, !.hpc = "update",
                            !.status = IF kids[k] = "zombie" THEN "exited"
                                       ELSE "stopped"]
       ELSE /\ sh' = [Wake(sh) EXCEPT !.pid = IF Unreaped # {} THEN 0 ELSE -1,
                                      !.hpc = "none"]
            /\ UNCHANGED kids
    /\ UNCHANGED <<jobs, mvars, cvars>>

\* sigchld_handler: with all signals blocked, the job of the child is
\* deleted or stopped
Update ==
    /\ sh.hpc = "update"
    /\ jobs' = sigchld_update(jobs, sh.pid, sh.status)
    /\ sh' = [sh EXCEPT !.hpc = "waitpid"]
    /\ UNCHANGED <<kids, mvars, cvars>>

ShellNext ==
    \/ ReadCommand \/ BuiltinFg \/ BuiltinBg \/ Fork \/ AddJob \/ WaitTest
    \/ SuspendReturn \/ Restore \/ KidExits \/ KidStops \/ UserSignal
    \/ SignalHandler \/ SigchldEnter \/ Waitpid \/ Update

(***************************************************************************)
(* The caller. A run starts from a profile: the capacity of the arena, the *)
(* word the arena holds before it is written, a script of calls made       *)
(* first, one after the other, and the arguments of the calls made after   *)
(* the script in every order (at most MaxOps of them). The caller keeps    *)
(* its live allocations in live, oldest first, each with the pointer p it  *)
(* was given and the number n of bytes it asked for; a scripted call names *)
(* an allocation by its place in live (0 is the NULL pointer).             *)
(***************************************************************************)
ArenaBytes == 2 * wsize + MaxHeapChunks * chunksize
JunkWord == WordMax - 1

Op(f, a, b) == [f |-> f, a |-> a, b |-> b]

Profile(name, capacity, junkword, calls, sizes, rsizes, cargs) ==
    [name |-> name, cap |-> capacity, junk |-> junkword, script |-> calls,
     sizes |-> sizes, rsizes |-> rsizes, cargs |-> cargs]

\* no arena at all, an arena for the sentinels only, and the whole arena
\* with the first call left to the caller
ColdProfiles ==
    { Profile("cold", c, JunkWord, <<>>, {0, 8}, {0, 8},
              {<<1, 8>>, <<TwoW \div 2 + 4, 2>>}) :
        c \in {0, 2 * wsize, ArenaBytes} }

\* small requests, minimum-size blocks among them
SmallProfile ==
    Profile("small", ArenaBytes, JunkWord, <<Op("mm_init", 0, 0)>>,
            {0, 8, 24}, {}, {})

\* the arena is all zero before it is written
ZeroProfile ==
    Profile("zero", ArenaBytes, 0, <<Op("mm_init", 0, 0)>>, {8, 40}, {}, {})

\* a fresh heap, two requests of 4000 bytes, then a request of 8000 bytes
BigProfile ==
    Profile("big", ArenaBytes, JunkWord,
            <<Op("mm_init", 0, 0), Op("malloc", 4000, 0),
              Op("malloc", 4000, 0)>>,
            {8000}, {8000}, {})

\* an allocation of 100 bytes, written, resized to 50, 200 or 0 bytes
ReallocProfile ==
    Profile("realloc", ArenaBytes, JunkWord,
            <<Op("mm_init", 0, 0), Op("malloc", 100, 0), Op("write", 1, 0)>>,
            {24}, {0, 50, 200}, {})

\* zeroed allocations over blocks that held data
CallocProfile ==
    Profile("calloc", ArenaBytes, JunkWord,
            <<Op("mm_init", 0, 0), Op("malloc", 24, 0), Op("write", 1, 0)>>,
            {}, {},
            {<<0, 8>>, <<3, 8>>, <<1, 1>>, <<2, 0>>, <<TwoW \div 2, 2>>,
             <<TwoW \div 2 + 4, 2>>, <<WordMax, WordMax>>})

\* three neighbours, two of them of the minimum size, released in every
\* order
MiniProfile ==
    Profile("mini", ArenaBytes, JunkWord,
            <<Op("mm_init", 0, 0), Op("malloc", 8, 0), Op("malloc", 8, 0),
              Op("malloc", 24, 0)>>,
            {8}, {}, {})

\* a request that takes the whole first chunk, so that the heap grows
\* behind an allocated block
ExactProfile ==
    Profile("exact", ArenaBytes, JunkWord,
            <<Op("mm_init", 0, 0), Op("malloc", chunksize - dsize, 0)>>,
            {8, 24}, {}, {})

\* six neighbours of the minimum size, the first, third and fifth released,
\* then requests of the minimum size and releases in every order
CycleProfile ==
    Profile("cycle", ArenaBytes, JunkWord,
            <<Op("mm_init", 0, 0), Op("malloc", 8, 0), Op("malloc", 8, 0),
              Op("malloc", 8, 0), Op("malloc", 8, 0), Op("malloc", 8, 0),
              Op("malloc", 8, 0), Op("free", 1, 0), Op("free", 2, 0),
              Op("free", 3, 0)>>,
            {8}, {}, {})

\* three blocks of the minimum size and three of 32 bytes, each followed
\* by an allocated neighbour, released one after the other; the neighbours
\* are released afterwards, those between two free blocks first
LinksProfile ==
    Profile("links", ArenaBytes, JunkWord,
            <<Op("mm_init", 0, 0),
              Op("malloc", 8, 0), Op("malloc", 8, 0), Op("malloc", 8, 0),
              Op("malloc", 8, 0), Op("malloc", 8, 0), Op("malloc", 8, 0),
              Op("malloc", 24, 0), Op("malloc", 8, 0), Op("malloc", 24, 0),
              Op("malloc", 8, 0), Op("malloc", 24, 0), Op("malloc", 8, 0),
              Op("free", 1, 0), Op("free", 2, 0), Op("free", 3, 0),
              Op("free", 4, 0), Op("free", 5, 0), Op("free", 6, 0),
              Op("free", 2, 0), Op("free", 4, 0), Op("free", 1, 0),
              Op("free", 1, 0), Op("free", 2, 0), Op("free", 1, 0)>>,
            {}, {}, {})

\* blocks of the sizes of sz, each followed by an allocated neighbour of the
\* minimum size, released in the order of sz, so that the bucket list holds
\* them in the reverse order; then a request of 72 bytes, and everything is
\* released
ScanScript(sz) ==
    <<Op("mm_init", 0, 0)>>
    \o [j \in 1..(2 * Len(sz)) |->
           IF j % 2 = 1 THEN Op("malloc", sz[(j + 1) \div 2] - wsize, 0)
           ELSE Op("malloc", 8, 0)]
    \o [j \in 1..Len(sz) |-> Op("free", j, 0)]
    \o <<Op("malloc", 72, 0)>>
    \o [j \in 1..(Len(sz) + 1) |-> Op("free", 1, 0)]

Repeat(n, x) == [j \in 1..n |-> x]

\* the block sizes of four bucket lists of thirteen blocks, last block first
ScanLists ==
    { Repeat(13, 80),
      Repeat(12, 64) \o <<80>>,
      <<64, 80, 96>> \o Repeat(10, 64),
      <<80, 64, 64>> \o Repeat(8, 64) \o <<80, 96>> }

ScanProfiles ==
    { Profile("scan", ArenaBytes, JunkWord, ScanScript(sz), {}, {}, {}) :
         sz \in ScanLists }

\* two requests of 24 bytes, the first released, then requests of 16 bytes
ReuseProfile ==
    Profile("reuse", ArenaBytes, JunkWord,
            <<Op("mm_init", 0, 0), Op("malloc", 24, 0), Op("malloc", 24, 0),
              Op("free", 1, 0)>>,
            {16}, {}, {})

Profiles ==
    ColdProfiles \cup ScanProfiles \cup
    {SmallProfile, ZeroProfile, BigProfile, ReallocProfile, CallocProfile,
     MiniProfile, ExactProfile, ReuseProfile, CycleProfile, LinksProfile}

\* the machine state at the start of a public call
Hst == [mem |-> mem, heap_start |-> heap_start, free_root |-> free_root,
        cap |-> prof.cap, junk |-> prof.junk, log |-> <<>>, fault |-> FALSE]

\* the word the caller stores in word k of the allocation at p
UserWord(p, k) == W(3 * (p + wsize * k) + 1)

Scripted == script # <<>>
\* the pointer of the allocation at place i of live, NULL for place 0
PtrAt(i) == IF i = 0 THEN NULL ELSE live[i].p
Drop(i) == IF i = 0 THEN live
           ELSE SubSeq(live, 1, i - 1) \o SubSeq(live, i + 1, Len(live))
HasRoom == Len(live) < MaxLive

\* the arguments a call of f may take now: those of the script's next call
\* while the script lasts, those of the profile afterwards
Args(f, free) ==
    IF Scripted
    THEN IF Head(script).f = f THEN {<<Head(script).a, Head(script).b>>} ELSE {}
    ELSE IF nops < MaxOps THEN free ELSE {}

Call(f, ptr, size, elements, ret, h) ==
    [f |-> f, ptr |-> ptr, size |-> size, elements |-> elements, ret |-> ret,
     log |-> h.log, fault |-> h.fault]

Commit(h, c) ==
    /\ mem' = h.mem
    /\ heap_start' = h.heap_start
    /\ free_root' = h.free_root
    /\ call' = c
    /\ nops' = IF Scripted THEN nops ELSE nops + 1
    /\ script' = IF Scripted THEN Tail(script) ELSE script
    /\ UNCHANGED prof
    /\ UNCHANGED <<cvars, svars>>

Init ==
    /\ prof \in Profiles
    /\ mem = <<>>
    /\ heap_start = NULL
    /\ free_root = [i \in 0..(seglist_length - 1) |-> NULL]
    /\ live = <<>>
    /\ call = Call("none", NULL, 0, 0, 0, Hst)
    /\ nops = 0
    /\ script = prof.script
    /\ ProxyIdle
    /\ ShellIdle

MmInit ==
    /\ heap_start = NULL
    /\ \E x \in Args("mm_init", {<<0, 0>>}) :
       \E r \in {mm_init(Hst)} :
          Commit(r.h, Call("mm_init", NULL, 0, 0, IF r.ok THEN 1 ELSE 0, r.h))
    /\ UNCHANGED live

Malloc ==
    \E x \in Args("malloc", {<<n, 0>> : n \in {n \in prof.sizes : n = 0 \/ HasRoom}}) :
    \E r \in {mm_malloc(Hst, x[1])} :
       /\ Commit(r.h, Call("malloc", NULL, x[1], 0, r.p, r.h))
       /\ live' = IF r.p = NULL THEN live
                  ELSE Append(live, [p |-> r.p, n |-> x[1]])

Free ==
    \E x \in Args("free", {<<i, 0>> : i \in 0..Len(live)}) :
    \E h \in {mm_free(Hst, PtrAt(x[1]))} :
       /\ Commit(h, Call("free", PtrAt(x[1]), 0, 0, 0, h))
       /\ live' = Drop(x[1])

Realloc ==
    \E x \in Args("realloc", {<<i, n>> : i \in 0..Len(live),
                                         n \in prof.rsizes}) :
    \E r \in {mm_realloc(Hst, PtrAt(x[1]), x[2])} :
       /\ x[1] # 0 \/ x[2] = 0 \/ HasRoom
       /\ Commit(r.h, Call("realloc", PtrAt(x[1]), x[2], 0, r.p, r.h))
       /\ live' = IF x[2] = 0 THEN Drop(x[1])
                  ELSE IF r.p = NULL THEN live
                  ELSE Append(Drop(x[1]), [p |-> r.p, n |-> x[2]])

Calloc ==
    \E x \in Args("calloc", {c \in prof.cargs : HasRoom}) :
    \E r \in {mm_calloc(Hst, x[1], x[2])} :
       /\ Commit(r.h, Call("calloc", NULL, x[2], x[1], r.p, r.h))
       /\ live' = IF r.p = NULL THEN live
                  ELSE Append(live, [p |-> r.p, n |-> MulW(x[1], x[2])])

\* the caller fills the n bytes it asked for
UserWrite ==
    \E x \in Args("write", {<<i, 0>> : i \in 1..Len(live)}) :
       LET ptr == PtrAt(x[1])
           word(k) == UserWord(ptr, k)
       IN  \E h \in {StoreBytes(Hst, ptr, live[x[1]].n, word)} :
              /\ Scripted \/ h.mem # mem
              /\ Commit(h, Call("write", ptr, 0, 0, 0, h))
              /\ UNCHANGED live

Next == MmInit \/ Malloc \/ Free \/ Realloc \/ Calloc \/ UserWrite

Spec == Init /\ [][Next]_vars

\* the proxy's runs: the allocator of this module is not called
AllocatorIdle ==
    /\ prof = ZeroProfile
    /\ mem = <<>>
    /\ heap_start = NULL
    /\ free_root = [i \in 0..(seglist_length - 1) |-> NULL]
    /\ live = <<>>
    /\ call = Call("none", NULL, 0, 0, 0, Hst)
    /\ nops = 0
    /\ script = <<>>

CacheInit ==
    /\ AllocatorIdle
    /\ ShellIdle
    /\ \E junk \in JunkValues : cache = init_cache(junk)
    /\ \E w \in Workloads : thr = [t \in Threads |-> Thread("parse", w[t], NULL)]

CacheNext ==
    \E t \in Threads :
       \/ ServeLock(t)
       \/ ServeLookup(t)
       \/ ServeSend(t)
       \/ ServeRelease(t)
       \/ ForwardLock(t)
       \/ ForwardInsert(t)

CacheSpec == CacheInit /\ [][CacheNext]_vars

\* the shell's runs: the allocator of this module and the proxy are not run
ShellInit == AllocatorIdle /\ ProxyIdle /\ ShellIdle

ShellSpec == ShellInit /\ [][ShellNext]_vars

(***************************************************************************)
(* What the claims speak of: the blocks in address order, the blocks of    *)
(* the bucket lists, the bytes of an allocation.                           *)
(***************************************************************************)
\* the machine state between two calls
H == Hst
Initialized == heap_start # NULL

\* the blocks from block b on, in address order, up to the first block of
\* size 0 (the epilogue) or the end of the heap
RECURSIVE WalkFrom(_, _, _)
WalkFrom(h, b, fuel) ==
    IF fuel = 0 \/ ~InHeap(h, b) \/ get_size(h, b) = 0 THEN <<>>
    ELSE <<b>> \o WalkFrom(h, find_next(h, b), fuel - 1)

Blocks(h) == IF h.heap_start = NULL THEN <<>>
             ELSE WalkFrom(h, h.heap_start, Len(h.mem))
\* the address at which the walk over the blocks ends
WalkEnd(h) == LET bs == Blocks(h)
              IN  IF bs = <<>> THEN h.heap_start
                  ELSE find_next(h, bs[Len(bs)])
BlockSet(h) == LET bs == Blocks(h) IN {bs[i] : i \in 1..Len(bs)}
FreeBlocks(h) == {b \in BlockSet(h) : ~get_alloc(h, b)}
\* the block that holds address a
BlockOf(h, a) == {b \in BlockSet(h) : b <= a /\ a < b + get_size(h, b)}

\* the blocks of a bucket list from block b on
RECURSIVE ListFrom(_, _, _)
ListFrom(h, b, fuel) ==
    IF fuel = 0 \/ b = NULL THEN <<>>
    ELSE <<b>> \o ListFrom(h, get_next_free(h, b), fuel - 1)

Bucket(h, i) == ListFrom(h, h.free_root[i], Len(h.mem) + 1)
Buckets == 0..(seglist_length - 1)
Listed(h) == UNION {LET l == Bucket(h, i) IN {l[k] : k \in 1..Len(l)} : i \in Buckets}
RECURSIVE SumLen(_, _)
SumLen(h, i) == IF i < 0 THEN 0 ELSE Len(Bucket(h, i)) + SumLen(h, i - 1)
ListedCount(h) == SumLen(h, seglist_length - 1)

\* byte k of the word at address a (little-endian); the bytes of a word
\* beyond its width are 0
ByteAt(h, a) ==
    LET wa == a - (a % wsize)
        j == a % wsize
    IN  IF 8 * j >= WordBits THEN 0 ELSE (Ld(h, wa) \div Pow2(8 * j)) % 256

LiveIdx == 1..Len(live)

(***************************************************************************)
(* The claims.                                                             *)
(***************************************************************************)
\* C1: between public calls, no two blocks that are adjacent in address
\* order are both free.
C1_NoAdjacentFree ==
    \A B \in {Blocks(H)} :
       \A i \in 1..(Len(B) - 1) : get_alloc(H, B[i]) \/ get_alloc(H, B[i + 1])

\* a free call whose block was merged into the free block before it
C1_Witness ==
    /\ call.f = "free" /\ call.ptr # NULL
    /\ \E b \in FreeBlocks(H) :
          b < payload_to_header(call.ptr)
          /\ payload_to_header(call.ptr) < b + get_size(H, b)

\* C2: between public calls, the blocks reachable from the free_root
\* bucket lists are exactly the blocks marked free in the address-ordered
\* list, each linked exactly once, so that the two counts are equal.
C2_ListsAreFreeBlocks ==
    \A F \in {FreeBlocks(H)} :
       Listed(H) = F /\ ListedCount(H) = Cardinality(F)

\* a free call that leaves two free blocks apart from each other
C2_Witness ==
    call.f = "free" /\ call.ptr # NULL /\ Cardinality(FreeBlocks(H)) >= 2

\* C3: every live allocation of n bytes owns the n bytes at its pointer:
\* they lie in its own allocated block (size less the header at least n),
\* between prologue and epilogue, apart from every other live allocation.
C3_LiveOwnsItsBytes ==
    \A S \in {BlockSet(H)} :
    \A i \in LiveIdx :
       LET a == live[i]
           b == payload_to_header(a.p)
       IN  /\ b \in S
           /\ get_alloc(H, b)
           /\ get_size(H, b) - wsize >= a.n
           /\ a.p >= mem_heap_lo + wsize
           /\ a.p + a.n <= mem_brk(H) - wsize
           /\ \A j \in LiveIdx \ {i} :
                 a.p + a.n <= live[j].p \/ live[j].p + live[j].n <= a.p

\* an allocation placed in space freed before, below an older allocation
C3_Witness ==
    /\ call.f = "malloc" /\ call.ret # NULL
    /\ \E i, j \in LiveIdx : i < j /\ live[j].p < live[i].p

\* C4: the previous-allocated bit of every block, the epilogue included,
\* is the allocated status of the block before it; the first block's bit
\* is set.
C4_PrevAllocBits ==
    Initialized =>
       /\ get_prev_alloc(H, heap_start)
       /\ \A B \in {Blocks(H)} :
          \A i \in 1..Len(B) :
             get_prev_alloc(H, find_next(H, B[i])) = get_alloc(H, B[i])

\* after a free, an allocated block whose bit is clear behind the freed
\* block, and an epilogue whose bit is clear behind the last free block
C4_Witness ==
    /\ call.f = "free" /\ call.ptr # NULL
    /\ \E b \in BlockSet(H) : get_alloc(H, b) /\ ~get_prev_alloc(H, b)
    /\ InHeap(H, WalkEnd(H)) /\ ~get_prev_alloc(H, WalkEnd(H))

\* C5: every non-NULL pointer malloc, calloc or realloc returns is a
\* multiple of 16 (the arena starts at a multiple of 16).
C5_Aligned ==
    mem_heap_lo % 16 = 0 =>
       /\ call.f \in {"malloc", "calloc", "realloc"} /\ call.ret # NULL
             => call.ret % 16 = 0
       /\ \A i \in LiveIdx : live[i].p % 16 = 0

\* realloc returns a block other than the first of the heap
C5_Witness ==
    call.f = "realloc" /\ call.ret # NULL /\ call.ptr # NULL
    /\ payload_to_header(call.ret) # heap_start

(***************************************************************************)
(* Claims about one call: the machine state after the call against the     *)
(* state before it.                                                        *)
(***************************************************************************)
\* the machine state after the call of a step
Hpost == [mem |-> mem', heap_start |-> heap_start', free_root |-> free_root',
          cap |-> prof.cap, junk |-> prof.junk, log |-> <<>>, fault |-> FALSE]
\* the step leaves the arena, the bucket roots and heap_start as they were
SameHeap == mem' = mem /\ free_root' = free_root /\ heap_start' = heap_start
\* the step leaves the heap as machine state h
HeapBecomes(h) ==
    mem' = h.mem /\ free_root' = h.free_root /\ heap_start' = h.heap_start
\* the growth service failed during the call
GrowthFailed(c) == \E i \in 1..Len(c.log) : ~c.log[i].ok

\* C6 as stated: malloc(0) returns NULL and leaves the heap size, every
\* word of the heap and every bucket root as they were, in every state,
\* the state before any initialization included.
C6_ZeroSizeEverywhere ==
    [][call'.f = "malloc" /\ call'.size = 0
          => call'.ret = NULL /\ mem' = mem /\ free_root' = free_root]_vars

\* C6: malloc(0) returns NULL in every state, and leaves the heap size,
\* every word of the heap, every bucket root and heap_start as they were
\* whenever the heap was initialized before the call (a first call before
\* any initialization runs mm_init before it looks at the size).
C6_ZeroSizeInitialized ==
    [][call'.f = "malloc" /\ call'.size = 0
          => call'.ret = NULL /\ (heap_start # NULL => SameHeap)]_vars

\* malloc(0) on a heap that holds a live allocation
C6_Witness ==
    call.f = "malloc" /\ call.size = 0 /\ call.ret = NULL /\ live # <<>>

\* C7: when the growth service fails during malloc on an initialized heap,
\* malloc returns NULL and the heap is as before the call: same size, same
\* words (epilogue, headers and footers among them), same bucket roots.
C7_GrowthFailureLeavesHeap ==
    [][call'.f = "malloc" /\ heap_start # NULL /\ GrowthFailed(call')
          => call'.ret = NULL /\ SameHeap]_vars

\* a malloc that found no fit and no room to grow, beside live allocations
C7_Witness ==
    call.f = "malloc" /\ call.size > 0 /\ GrowthFailed(call) /\ live # <<>>

\* C8: on a fresh heap, after malloc(4000) twice and free of both in either
\* order the heap is one free block and malloc(8000) returns non-NULL
\* without a call of the growth service; and every free of a block with a
\* free neighbour leaves one free block of at least the sizes' sum.
C8_FreedNeighboursMerge ==
    [][/\ prof.name = "big" /\ ~Scripted /\ live = <<>>
          /\ call'.f = "malloc" /\ call'.size = 8000
          => /\ Cardinality(FreeBlocks(H)) = 1
             /\ call'.ret # NULL
             /\ call'.log = <<>>
       /\ call'.f = "free" /\ call'.ptr # NULL
          => \A b \in {payload_to_header(call'.ptr)} :
             \A nx \in {find_next(H, b)} :
             \A pv \in {IF get_prev_alloc(H, b) THEN b ELSE find_prev(H, b)} :
                LET total == get_size(H, b)
                             + (IF pv # b THEN get_size(H, pv) ELSE 0)
                             + (IF get_alloc(H, nx) THEN 0 ELSE get_size(H, nx))
                IN  /\ pv \in FreeBlocks(Hpost)
                    /\ get_size(Hpost, pv) >= total]_vars

\* malloc(8000) placed without growth after both blocks of 4000 were freed
C8_Witness ==
    /\ prof.name = "big" /\ call.f = "malloc" /\ call.size = 8000
    /\ call.ret # NULL /\ call.log = <<>>

\* C9: a successful realloc(p, n) of a live allocation p with n > 0
\* returns a pointer q other than p into a block that no allocation held
\* before the call; the first min(s, n) bytes at q are the bytes p held
\* before the call, s the payload size of p's block; p's block is free
\* afterwards.
C9_ReallocMovesAndKeeps ==
    [][call'.f = "realloc" /\ call'.ptr # NULL /\ call'.size > 0
       /\ call'.ret # NULL
          => \A old \in {payload_to_header(call'.ptr)} :
             \A q \in {call'.ret} :
                /\ q # call'.ptr
                /\ \A i \in LiveIdx :
                      \A b \in {payload_to_header(live[i].p)} :
                         ~(b <= q /\ q < b + get_size(H, b))
                /\ payload_to_header(q) \in BlockSet(Hpost)
                /\ get_alloc(Hpost, payload_to_header(q))
                /\ \A k \in 0..(min(get_payload_size(H, old), call'.size) - 1) :
                      ByteAt(Hpost, q + k) = ByteAt(H, call'.ptr + k)
                /\ BlockOf(Hpost, old) # {}
                /\ \A c \in BlockOf(Hpost, old) : ~get_alloc(Hpost, c)]_vars

\* an allocation of 100 written bytes moved into one of 50 bytes
C9_Witness ==
    /\ call.f = "realloc" /\ call.ptr # NULL /\ call.size = 50
    /\ call.ret # NULL

\* C10 as stated: realloc(p, 0) does to the heap what free(p) does and
\* returns NULL; realloc(NULL, n) does and returns what malloc(n) does;
\* neither reads a header through NULL.
C10_ReallocEdgesAsStated ==
    [][call'.f = "realloc"
          => /\ call'.size = 0
                => call'.ret = NULL /\ HeapBecomes(mm_free(Hst, call'.ptr))
             /\ call'.ptr = NULL
                => \A m \in {mm_malloc(Hst, call'.size)} :
                      call'.ret = m.p /\ HeapBecomes(m.h)
             /\ call'.size = 0 \/ call'.ptr = NULL => ~call'.fault]_vars

\* C10: realloc(p, 0) does to the heap what free(p) does and returns NULL;
\* realloc(NULL, n) does and returns what malloc(n) does when n > 0 or the
\* heap is initialized (realloc(NULL, 0) is free(NULL) and leaves a heap
\* that is not initialized as it is); neither reads a header through NULL.
C10_ReallocEdges ==
    [][call'.f = "realloc"
          => /\ call'.size = 0
                => call'.ret = NULL /\ HeapBecomes(mm_free(Hst, call'.ptr))
             /\ call'.ptr = NULL /\ (call'.size > 0 \/ heap_start # NULL)
                => \A m \in {mm_malloc(Hst, call'.size)} :
                      call'.ret = m.p /\ HeapBecomes(m.h)
             /\ call'.size = 0 \/ call'.ptr = NULL => ~call'.fault]_vars

\* realloc(NULL, n) that returned an allocation
C10_Witness ==
    /\ call.f = "realloc" /\ call.ptr = NULL /\ call.size > 0
    /\ call.ret # NULL

\* C11: when the allocation inside realloc(p, n) fails because the heap
\* cannot grow, realloc returns NULL and p is untouched: its block is still
\* allocated with the same size, and every word of the heap, every bucket
\* root and the caller's set of live allocations are as before the call.
C11_ReallocFailureLeavesOld ==
    [][call'.f = "realloc" /\ call'.ptr # NULL /\ call'.size > 0
       /\ GrowthFailed(call')
          => \A b \in {payload_to_header(call'.ptr)} :
                /\ call'.ret = NULL
                /\ SameHeap
                /\ get_alloc(Hpost, b)
                /\ get_size(Hpost, b) = get_size(H, b)
                /\ live' = live]_vars

\* a realloc of a live allocation that found no room to grow
C11_Witness ==
    /\ call.f = "realloc" /\ call.ptr # NULL /\ call.size > 0
    /\ GrowthFailed(call) /\ call.ret = NULL
    /\ \E i \in LiveIdx : live[i].p = call.ptr

\* the product of count and size exceeds the largest word
Overflows(count, size) == count > 0 /\ size > WordMax \div count

\* C12: for every count and size whose product exceeds the range of a
\* word, calloc(count, size) returns NULL without allocating: no call of
\* the growth service, and the heap, initialized or not, as before.
C12_CallocOverflow ==
    [][call'.f = "calloc" /\ Overflows(call'.elements, call'.size)
          => /\ call'.ret = NULL
             /\ SameHeap
             /\ call'.log = <<>>
             /\ live' = live]_vars

\* an overflowing calloc whose wrapped product is a size malloc would
\* serve, on a heap in use
C12_Witness ==
    /\ call.f = "calloc" /\ Overflows(call.elements, call.size)
    /\ MulW(call.elements, call.size) \in 1..chunksize
    /\ call.ret = NULL /\ live # <<>>

\* what calloc owes on success: an allocated block at q whose payload has
\* room for n bytes, the n bytes at q all zero, and q among the live
\* allocations
ZeroedAllocation(q, n) ==
    /\ q # NULL
    /\ payload_to_header(q) \in BlockSet(Hpost)
    /\ get_alloc(Hpost, payload_to_header(q))
    /\ get_payload_size(Hpost, payload_to_header(q)) >= n
    /\ \A k \in 0..(n - 1) : ByteAt(Hpost, q + k) = 0
    /\ \E i \in 1..Len(live') : live'[i].p = q /\ live'[i].n = n

\* C13 as stated: calloc(count, size) returns NULL if count is zero or the
\* product overflows; in every other case, the growth service not
\* failing, it returns a live allocation of count * size zero bytes.
C13_CallocAsStated ==
    [][call'.f = "calloc"
          => IF call'.elements = 0 \/ Overflows(call'.elements, call'.size)
             THEN call'.ret = NULL
             ELSE ~GrowthFailed(call')
                  => ZeroedAllocation(call'.ret,
                                      MulW(call'.elements, call'.size))]_vars

\* C13: calloc(count, size) returns NULL if count is zero, size is zero or
\* the product overflows; in every other case, the growth service not
\* failing, it returns a live allocation of count * size bytes that all
\* read as zero, whatever the block held before.
C13_CallocZeroes ==
    [][call'.f = "calloc"
          => IF call'.elements = 0 \/ call'.size = 0
                \/ Overflows(call'.elements, call'.size)
             THEN call'.ret = NULL
             ELSE ~GrowthFailed(call')
                  => ZeroedAllocation(call'.ret,
                                      MulW(call'.elements, call'.size))]_vars

\* calloc reuses the first block of the heap, which the caller had filled
\* and released
C13_Witness ==
    /\ prof.name = "calloc" /\ call.f = "calloc" /\ call.ret # NULL
    /\ call.ret = header_to_payload(heap_start)
    /\ call.elements * call.size = 24

\* C14: once mm_init has set up the heap, its first word is a prologue of
\* size 0 marked allocated, its last word an epilogue of size 0 marked
\* allocated, and the walk from heap_start by block sizes starts right
\* behind the prologue, goes from each block to the byte behind it, and
\* ends on the epilogue.
C14_HeapIsTiled ==
    Initialized =>
       \A B \in {Blocks(H)} :
          /\ extract_size(Ld(H, mem_heap_lo)) = 0
          /\ extract_alloc(Ld(H, mem_heap_lo))
          /\ heap_start = mem_heap_lo + wsize
          /\ extract_size(Ld(H, mem_heap_hi(H) - 7)) = 0
          /\ extract_alloc(Ld(H, mem_heap_hi(H) - 7))
          /\ \A i \in 1..Len(B) :
                /\ get_size(H, B[i]) > 0
                /\ B[i] = IF i = 1 THEN heap_start
                          ELSE B[i - 1] + get_size(H, B[i - 1])
          /\ WalkEnd(H) = mem_heap_hi(H) - 7
          /\ WalkEnd(H) = IF B = <<>> THEN heap_start
                          ELSE B[Len(B)] + get_size(H, B[Len(B)])

\* a heap grown a second time, of three blocks or more
C14_Witness ==
    /\ Initialized
    /\ Len(Blocks(H)) >= 3
    /\ mem_brk(H) - mem_heap_lo > 2 * wsize + chunksize

\* the number of bytes a call asks malloc for, and the adjusted size of a
\* request of n bytes
RequestOf(c) == IF c.f = "calloc" THEN MulW(c.elements, c.size) ELSE c.size
Adjusted(n) == max(round_up(W(n + wsize), dsize), min_block_size)
\* request i of the step is the first request of mm_init, the one for the
\* prologue and the epilogue
SentinelRequest(i) ==
    /\ heap_start = NULL
    /\ i = 1
    /\ call'.f \in {"mm_init", "malloc", "realloc", "calloc"}
\* request i of the step is the one by which mm_init extends the heap
InitExtension(i) ==
    \/ call'.f = "mm_init" /\ i = 2
    \/ heap_start = NULL /\ i = 2 /\ call'.log[1].ok

\* C15 as stated: the heap never shrinks, and every request to mem_sbrk
\* is for a multiple of 16 bytes of at least chunksize bytes, the larger
\* of chunksize and the adjusted request size.
C15_GrowthAsStated ==
    [][/\ Len(mem') >= Len(mem)
       /\ \A i \in 1..Len(call'.log) :
             /\ call'.log[i].incr % 16 = 0
             /\ call'.log[i].incr >= chunksize
             /\ call'.log[i].incr
                   = IF InitExtension(i) THEN chunksize
                     ELSE max(chunksize, Adjusted(RequestOf(call')))]_vars

\* C15: the heap never shrinks, and every request to mem_sbrk is for a
\* multiple of 16 bytes; the first request of mm_init is for the 16 bytes
\* of prologue and epilogue, and every other request is for at least
\* chunksize bytes, the larger of chunksize and the adjusted request size.
C15_Growth ==
    [][/\ Len(mem') >= Len(mem)
       /\ \A i \in 1..Len(call'.log) :
             /\ call'.log[i].incr % 16 = 0
             /\ IF SentinelRequest(i)
                THEN call'.log[i].incr = 2 * wsize
                ELSE /\ call'.log[i].incr >= chunksize
                     /\ call'.log[i].incr
                           = IF InitExtension(i) THEN chunksize
                             ELSE max(chunksize,
                                      Adjusted(RequestOf(call')))]_vars

\* a malloc that found no fit on an initialized heap and grew it by a chunk
C15_Witness ==
    /\ Initialized /\ call.f = "malloc" /\ call.ret # NULL
    /\ call.log = <<[incr |-> chunksize, ok |-> TRUE]>>
    /\ live # <<>>

\* C16: every block between prologue and epilogue, allocated or free, has
\* a size (get_size) that is a multiple of 16 and at least 16, and the
\* mini bit of its header is set exactly when that size is 16.
C16_SizesAndMiniBit ==
    \A b \in BlockSet(H) :
       \A s \in {get_size(H, b)} :
          /\ s % 16 = 0
          /\ s >= min_block_size
          /\ get_mini(H, b) <=> s = min_block_size
          /\ get_alloc(H, b) => extract_size(Ld(H, b)) = s

\* an allocated block and a free block of 16 bytes beside a larger block
C16_Witness ==
    /\ \E a, b \in BlockSet(H) :
          /\ get_mini(H, a) /\ get_alloc(H, a)
          /\ get_mini(H, b) /\ ~get_alloc(H, b)
    /\ \E c \in BlockSet(H) : get_alloc(H, c) /\ get_size(H, c) > min_block_size

\* the blocks of bucket i as a set
BucketSet(h, i) == LET l == Bucket(h, i) IN {l[k] : k \in 1..Len(l)}

\* C17: every free block is linked in the bucket that get_seglist_ind
\* gives for its size and in no other bucket; bucket 0 holds exactly the
\* free blocks of 16 bytes.
C17_RightBucket ==
    \A set \in {[i \in Buckets |-> BucketSet(H, i)]} :
    \A free \in {FreeBlocks(H)} :
       /\ \A i \in Buckets :
             \A b \in set[i] : get_seglist_ind(get_size(H, b)) = i
       /\ \A f \in free : f \in set[get_seglist_ind(get_size(H, f))]
       /\ set[0] = {f \in free : get_size(H, f) = min_block_size}

\* a free block of 16 bytes and free blocks in two other buckets
C17_Witness ==
    /\ BucketSet(H, 0) # {}
    /\ \E i, j \in Buckets \ {0} :
          i # j /\ BucketSet(H, i) # {} /\ BucketSet(H, j) # {}

\* the heap a successful mm_init leaves: one free block of chunksize bytes
\* between prologue and epilogue, its previous-allocated bit set, alone in
\* the bucket of its size, every other bucket empty
FreshHeap(h) ==
    /\ h.heap_start = mem_heap_lo + wsize
    /\ mem_brk(h) = mem_heap_lo + 2 * wsize + chunksize
    /\ Blocks(h) = <<h.heap_start>>
    /\ get_size(h, h.heap_start) = chunksize
    /\ ~get_alloc(h, h.heap_start)
    /\ get_prev_alloc(h, h.heap_start)
    /\ \A i \in Buckets :
          Bucket(h, i) = IF i = get_seglist_ind(chunksize)
                         THEN <<h.heap_start>> ELSE <<>>

\* C18: after a successful mm_init every bucket is empty but the one for
\* size 4096, which holds the one block of the heap, free, of 4096 bytes,
\* its previous-allocated bit set; and a first malloc on a heap that is
\* not initialized does what mm_init followed by that malloc does.
C18_FreshHeap ==
    [][/\ call'.f = "mm_init" /\ call'.ret = 1 => FreshHeap(Hpost)
       /\ call'.f = "malloc" /\ heap_start = NULL
          => \A i \in {mm_init(Hst)} :
                i.ok => /\ FreshHeap(i.h)
                        /\ \A m \in {mm_malloc(i.h, call'.size)} :
                              call'.ret = m.p /\ HeapBecomes(m.h)]_vars

\* a first malloc that initialized the heap and allocated from it
C18_Witness ==
    /\ call.f = "malloc" /\ call.ret = mem_heap_lo + dsize
    /\ call.log = <<[incr |-> 2 * wsize, ok |-> TRUE],
                    [incr |-> chunksize, ok |-> TRUE]>>

(***************************************************************************)
(* The heap checker (mm.c:961-1180).                                       *)
(***************************************************************************)
check_address_alignment(block) == BitAnd(header_to_payload(block), 15) = 0

check_prologue(h) ==
    /\ get_size(h, mem_heap_lo) = 0
    /\ get_alloc(h, mem_heap_lo)
    /\ get_prev_alloc(h, mem_heap_lo)

check_epilogue(h) ==
    /\ get_size(h, mem_heap_hi(h) - 7) = 0
    /\ get_alloc(h, mem_heap_hi(h) - 7)

consecutive_free(h, block) == ~get_alloc(h, block) /\ ~get_prev_alloc(h, block)

within_heap_boundaries(h, block) ==
    block < mem_heap_hi(h) /\ block > mem_heap_lo

\* the footer is read and compared for every free block, whatever its size
check_header_and_footer(h, block) ==
    IF get_size(h, block) < min_block_size THEN FALSE
    ELSE IF ~get_alloc(h, block)
            /\ Ld(h, header_to_footer(h, block)) # Ld(h, block) THEN FALSE
    ELSE TRUE

count_free(h) == Cardinality({i \in 1..Len(Blocks(h)) : ~get_alloc(h, Blocks(h)[i])})

explicit_list_pointer_consistency(h, block) ==
    LET prev == get_prev_free(h, block)
    IN  IF prev = NULL THEN FALSE
        ELSE IF get_next_free(h, prev) # block THEN FALSE
        ELSE TRUE

check_explicit_list(h, seglist_ind) ==
    \A L \in {Bucket(h, seglist_ind)} :
    \A k \in 1..Len(L) :
       LET block == L[k]
       IN  /\ ~get_alloc(h, block)
           /\ ~(get_mini(h, block) /\ get_size(h, block) # min_block_size)
           /\ block = h.free_root[seglist_ind]
                 \/ explicit_list_pointer_consistency(h, block)
           /\ within_heap_boundaries(h, block)
           /\ seglist_ind = get_seglist_ind(get_size(h, block))

mm_checkheap(h) ==
    /\ check_prologue(h)
    /\ check_epilogue(h)
    /\ \A B \in {Blocks(h)} :
       \A i \in 1..Len(B) :
          /\ check_address_alignment(B[i])
          /\ within_heap_boundaries(h, B[i])
          /\ B[i] = h.heap_start \/ check_header_and_footer(h, B[i])
          /\ ~(B[i] # h.heap_start /\ consecutive_free(h, B[i]))
    /\ \A i \in Buckets : check_explicit_list(h, i)
    /\ ListedCount(h) = count_free(h)

\* C19: in every state a sequence of mm_init, malloc, free, realloc and
\* calloc calls leaves behind, mm_checkheap returns true, the states that
\* hold free blocks of 16 bytes among them.
C19_CheckheapAccepts == Initialized => mm_checkheap(H)

\* C20: a cache block's payload and the block itself are never freed while
\* the block's reference count is greater than zero: whatever the order of
\* the hits, the eviction and the readers' decrement_ref calls, no reader is
\* sending from, decrementing or unlocking a block that was already freed.
\* The code breaks this: decrement_ref frees a dead block when the count it
\* has just decremented is NOT zero.
C20_NoFreeWhileReferenced ==
    /\ ~cache.fault
    /\ \A b \in CacheBlocks :
          cache.blk[b].used /\ cache.blk[b].refcnt > 0
             => cache.blk[b].alive /\ cache.blk[b].payload
    /\ \A t \in Threads :
          thr[t].pc \in {"rio_writen", "decrement_ref"}
             => Valid(cache, thr[t].block) /\ cache.blk[thr[t].block].payload

\* C21: a block evicted while referenced (marked dead by free_block) has its
\* payload and itself freed by decrement_ref exactly when its reference
\* count reaches 0: a decrement of a dead block's count frees the block if
\* the count is then 0 and leaves it allocated otherwise. The code does the
\* opposite on both sides.
C21_FreedExactlyAtZero ==
    [][\A b \in CacheBlocks :
          (/\ cache.blk[b].dead /\ cache.blk[b].alive
           /\ cache'.blk[b].refcnt = cache.blk[b].refcnt - 1)
             => (cache'.blk[b].alive <=> cache'.blk[b].refcnt # 0)]_vars

\* the blocks from head along next, most recently used first
RECURSIVE ListAlong(_, _, _)
ListAlong(s, block, fuel) ==
    IF block = NULL \/ fuel = 0 THEN <<>>
    ELSE <<block>> \o ListAlong(s, s.blk[block].next, fuel - 1)
CacheList(s) == ListAlong(s, s.head, MaxCacheBlocks + 1)

\* head, tail, prev and next describe one list, read in either direction
LinkedList(s) ==
    \A l \in {CacheList(s)} :
       /\ Len(l) <= MaxCacheBlocks
       /\ \A i, j \in 1..Len(l) : l[i] = l[j] => i = j
       /\ \A i \in 1..Len(l) : Valid(s, l[i]) /\ ~s.blk[l[i]].dead
       /\ (s.head = NULL) <=> (s.tail = NULL)
       /\ l # <<>> => /\ s.blk[l[1]].prev = NULL
                      /\ l[Len(l)] = s.tail
                      /\ s.blk[s.tail].next = NULL
       /\ \A i \in 2..Len(l) : s.blk[l[i]].prev = l[i - 1]

\* sequence l without its element b
Without(l, b) == SelectSeq(l, LAMBDA x : x # b)
IsPrefix(p, l) == Len(p) <= Len(l) /\ \A i \in 1..Len(p) : p[i] = l[i]

\* thread t has just looked its object up and found it, or just inserted it
Used(t) ==
    \/ thr[t].pc = "in_cache" /\ thr'[t].pc = "rio_writen"
    \/ thr[t].pc = "insert" /\ thr'[t].pc = "parse"

\* C22: the cache list is ordered by recency and is a consistent doubly
\* linked list: a step that inserts or hits an object puts its block at the
\* head and keeps every other block behind it in the order it had (blocks
\* leave only from the tail); every other step leaves the list as it is.
C22_RecencyOrder ==
    [][\A old \in {CacheList(cache)} : \A new \in {CacheList(cache')} :
          /\ LinkedList(cache')
          /\ \A t \in Threads :
                Used(t) => /\ new # <<>>
                           /\ cache'.blk[Head(new)].key = Serving(t).key
                           /\ IsPrefix(Tail(new), Without(old, Head(new)))
          /\ (\A t \in Threads : ~Used(t)) => new = old]_vars

\* a hit has moved the block of object 1 from the tail to the head of a list
\* of at least three blocks
C22_Witness ==
    /\ Len(CacheList(cache)) >= 3
    /\ cache.blk[cache.head].key = 1
    /\ \E t \in Readers : thr[t].pc = "rio_writen" /\ thr[t].block = cache.head

\* the bytes of the payloads of the blocks of l
RECURSIVE SumSizes(_, _)
SumSizes(s, l) ==
    IF l = <<>> THEN 0 ELSE s.blk[Head(l)].size + SumSizes(s, Tail(l))

\* thread t has just returned from insert
Inserted(t) == thr[t].pc = "insert" /\ thr'[t].pc = "parse"

\* C23: with payloads of at most MAX_OBJECT_SIZE, cache_size is the sum of
\* the sizes of the blocks from head to tail and never exceeds
\* MAX_CACHE_SIZE; an object already cached is not inserted again; an insert
\* evicts only blocks from the tail, and only as long as the new payload
\* does not fit: had the last evicted block stayed, cache_size plus the
\* payload would exceed MAX_CACHE_SIZE. The code evicts one block more when
\* the payload fits exactly.
C23_SizeAndEviction ==
    [][\A old \in {CacheList(cache)} : \A new \in {CacheList(cache')} :
          /\ cache'.cache_size = SumSizes(cache', new)
          /\ cache'.cache_size <= MAX_CACHE_SIZE
          /\ \A i, j \in 1..Len(new) :
                cache'.blk[new[i]].key = cache'.blk[new[j]].key => i = j
          /\ \A t \in Threads :
                Inserted(t) =>
                   \/ /\ \E b \in 1..Len(old) : cache.blk[old[b]].key = Serving(t).key
                      /\ Len(new) = Len(old)
                   \/ /\ \A b \in 1..Len(old) : cache.blk[old[b]].key # Serving(t).key
                      /\ IsPrefix(Tail(new), old)
                      /\ Len(new) <= Len(old) =>
                            SumSizes(cache, SubSeq(old, 1, Len(new)))
                               + Serving(t).size > MAX_CACHE_SIZE]_vars

\* C24: for every block b whose previous-allocated bit is clear (the
\* epilogue included), find_prev(b) is the block right before b in address
\* order: a free block of the walk with find_next(find_prev(b)) = b, whether
\* it is a mini block, told by the mini bit of the word before b's header,
\* or a larger block found through the size in its footer.
C24_FindPrev ==
    Initialized =>
       \A free \in {FreeBlocks(H)} :
       \A b \in BlockSet(H) \cup {WalkEnd(H)} :
          ~get_prev_alloc(H, b) =>
             \A p \in {find_prev(H, b)} :
                /\ p \in free
                /\ find_next(H, p) = b

\* a free mini block and a larger free block, each before a block whose
\* bit is clear
C24_Witness ==
    /\ \E b \in BlockSet(H) \cup {WalkEnd(H)} :
          /\ ~get_prev_alloc(H, b)
          /\ extract_mini(Ld(H, find_prev_footer(b)))
          /\ get_size(H, find_prev(H, b)) = min_block_size
    /\ \E b \in BlockSet(H) \cup {WalkEnd(H)} :
          /\ ~get_prev_alloc(H, b)
          /\ ~extract_mini(Ld(H, find_prev_footer(b)))
          /\ get_size(H, find_prev(H, b)) > min_block_size

\* the blocks a free of block b merges in heap h: b and its free neighbours
Participants(h, b) ==
    {b} \cup (IF get_prev_alloc(h, b) THEN {} ELSE {find_prev(h, b)})
        \cup (IF get_alloc(h, find_next(h, b)) THEN {} ELSE {find_next(h, b)})
RECURSIVE SumOfSizes(_, _)
SumOfSizes(h, S) ==
    IF S = {} THEN 0
    ELSE LET b == CHOOSE x \in S : TRUE
         IN  get_size(h, b) + SumOfSizes(h, S \ {b})
Lowest(S) == CHOOSE x \in S : \A y \in S : x <= y

\* C25: free(p) merges the freed block with each free neighbour in address
\* order (none, the next, the previous, or both): the participants leave
\* the walk and the buckets, and one free block takes their place, at the
\* lowest of their addresses, of the sum of their sizes, linked in the
\* bucket of that sum and in no other.
C25_FreeMerges ==
    [][call'.f = "free" /\ call'.ptr # NULL
          => \A P \in {Participants(H, payload_to_header(call'.ptr))} :
             \A lo \in {Lowest(P)} :
             \A total \in {SumOfSizes(H, P)} :
                /\ BlockSet(Hpost) = (BlockSet(H) \ P) \cup {lo}
                /\ FreeBlocks(Hpost) = (FreeBlocks(H) \ P) \cup {lo}
                /\ get_size(Hpost, lo) = total
                /\ Listed(Hpost) = (Listed(H) \ P) \cup {lo}
                /\ \A i \in Buckets :
                      lo \in BucketSet(Hpost, i) <=> i = get_seglist_ind(total)]_vars

\* a free whose block was merged with a free block on either side: the
\* freed block's old header lies inside a free block that starts before it
\* and ends after it
C25_Witness ==
    /\ call.f = "free" /\ call.ptr # NULL
    /\ \E m \in FreeBlocks(H) : \A b \in {payload_to_header(call.ptr)} :
          /\ m < b
          /\ extract_size(Ld(H, b)) >= min_block_size
          /\ b + extract_size(Ld(H, b)) < m + get_size(H, m)

\* the heap and the free block malloc(size) has chosen when it comes to
\* remove_from_free: the fit, or the block the growth yields (b is NULL
\* when the growth fails)
Chosen(h, size) ==
    With(IF h.heap_start = NULL THEN mm_init(h).h ELSE h, LAMBDA h0 :
    With(find_fit(h0, Adjusted(size)), LAMBDA fit :
        IF fit = NULL
        THEN extend_heap(h0, max(Adjusted(size), chunksize))
        ELSE [h |-> h0, b |-> fit]))

\* C26: malloc places a request of adjusted size asize in a free block of
\* size S. If S - asize >= 16 the block becomes an allocated block of size
\* asize and right behind it lies a new free block of size S - asize with
\* the previous-allocated bit set, linked in its bucket; larger than 16
\* bytes it ends in a footer equal to its header, at 16 bytes it is a mini
\* block whose second word is its link and not a footer. Otherwise the
\* block is allocated whole and the walk has no new block.
C26_Split ==
    [][call'.f = "malloc" /\ call'.ret # NULL
          => \A e \in {Chosen(H, call'.size)} :
             \A asize \in {Adjusted(call'.size)} :
             \A S \in {get_size(e.h, e.b)} :
             \A rest \in {W(e.b + asize)} :
                /\ call'.ret = header_to_payload(e.b)
                /\ get_alloc(Hpost, e.b)
                /\ IF S - asize >= min_block_size
                   THEN /\ get_size(Hpost, e.b) = asize
                        /\ BlockSet(Hpost) = BlockSet(e.h) \cup {rest}
                        /\ rest \notin BlockSet(e.h)
                        /\ ~get_alloc(Hpost, rest)
                        /\ get_size(Hpost, rest) = S - asize
                        /\ get_prev_alloc(Hpost, rest)
                        /\ rest \in BucketSet(Hpost, get_seglist_ind(S - asize))
                        /\ IF S - asize > min_block_size
                           THEN Ld(Hpost, header_to_footer(Hpost, rest))
                                   = Ld(Hpost, rest)
                           ELSE /\ get_mini(Hpost, rest)
                                /\ Ld(Hpost, W(rest + wsize)) # Ld(Hpost, rest)
                   ELSE /\ get_size(Hpost, e.b) = S
                        /\ BlockSet(Hpost) = BlockSet(e.h)]_vars

\* a malloc whose block is followed by a free mini block: the rest of a
\* split, since two free blocks never lie side by side
C26_Witness ==
    /\ call.f = "malloc" /\ call.ret # NULL
    /\ \A b \in {payload_to_header(call.ret)} :
          /\ get_size(H, b) = Adjusted(call.size)
          /\ find_next(H, b) \in FreeBlocks(H)
          /\ get_mini(H, find_next(H, b))

\* no free block of heap h has room for asize bytes
NoRoom(h, asize) == \A b \in FreeBlocks(h) : get_size(h, b) < asize

\* C27: malloc calls the growth service only when no free block of at least
\* the adjusted request size exists anywhere in the heap: find_fit returns
\* NULL only then, and a request neither fails nor grows the heap while one
\* free block has room for it; after malloc(24), malloc(24) and the free of
\* the first, malloc(16) succeeds without growth.
C27_GrowsOnlyWithoutFit ==
    [][call'.f = "malloc" =>
          \A asize \in {Adjusted(call'.size)} :
             /\ Initialized /\ find_fit(H, asize) = NULL => NoRoom(H, asize)
             /\ call'.log # <<>> => NoRoom(H, asize)
             /\ call'.size > 0 /\ call'.ret = NULL => NoRoom(H, asize)
             /\ prof.name = "reuse" /\ ~Scripted /\ nops = 0
                   => call'.ret # NULL /\ call'.log = <<>>]_vars

\* malloc(16) after malloc(24), malloc(24) and the free of the first
C27_Witness ==
    /\ prof.name = "reuse" /\ ~Scripted /\ nops = 1
    /\ call.f = "malloc" /\ call.size = 16
    /\ call.ret # NULL /\ call.log = <<>>

\* request sizes, and the adjusted sizes malloc passes to find_fit for them
RequestSizes == {1, 8, 16, 24, 40, 100, 200, 1000, 4000, 4088, 8000}
FitSizes == {Adjusted(n) : n \in RequestSizes}
\* the block find_fit takes from the home bucket of asize, NULL if none
HomeFit(h, asize) ==
    find_fit_scan(h, asize, h.free_root[get_seglist_ind(asize)], NULL, 0,
                  Len(h.mem)).min

\* C28: a block that find_fit(asize) returns is free, is linked in a bucket
\* list, and has at least asize bytes, whether it comes from the home
\* bucket or is the head of the first non-empty larger bucket, which is
\* returned without a look at its size.
C28_FitIsFreeAndLargeEnough ==
    Initialized =>
       \A free \in {FreeBlocks(H)} : \A listed \in {Listed(H)} :
       \A asize \in FitSizes :
       \A b \in {find_fit(H, asize)} :
          b # NULL => /\ b \in free
                      /\ b \in listed
                      /\ get_size(H, b) >= asize

\* one state in which find_fit answers one size from its home bucket, which
\* also holds a block too small for it, and another size with the head of a
\* larger bucket
C28_Witness ==
    /\ Initialized
    /\ \E asize \in FitSizes :
          /\ HomeFit(H, asize) # NULL
          /\ \E b \in BucketSet(H, get_seglist_ind(asize)) : get_size(H, b) < asize
    /\ \E asize \in FitSizes :
          /\ HomeFit(H, asize) = NULL
          /\ find_fit(H, asize) # NULL

\* C29: every bucket list is finite and acyclic and its links agree: the
\* head has no predecessor, the last block no successor, and every other
\* listed block is the successor of its predecessor; so it is for bucket 0
\* through cycles of allocating and freeing blocks of the minimum size.
C29_ListsLinked ==
    Initialized =>
       \A i \in Buckets : \A l \in {Bucket(H, i)} :
          /\ Len(l) <= Len(mem)
          /\ \A j, k \in 1..Len(l) : l[j] = l[k] => j = k
          /\ l # <<>> => /\ get_prev_free(H, l[1]) = NULL
                         /\ get_next_free(H, l[Len(l)]) = NULL
          /\ \A k \in 2..Len(l) :
                /\ get_prev_free(H, l[k]) = l[k - 1]
                /\ get_next_free(H, get_prev_free(H, l[k])) = l[k]

\* bucket 0, which held three blocks, holds two again after blocks of the
\* minimum size were merged away, taken from it and freed
C29_Witness ==
    /\ prof.name = "cycle" /\ nops >= 3
    /\ call.f = "free" /\ call.ptr # NULL
    /\ Len(Bucket(H, 0)) >= 2
    /\ \E i \in Buckets \ {0} : Len(Bucket(H, i)) >= 1

\* C30: every free block larger than 16 bytes carries in its last word a
\* footer identical to its header: the same size, the allocated bit clear,
\* the same previous-allocated bit; also once the status of a block beside
\* it has changed.
C30_FooterMirrorsHeader ==
    Initialized =>
       \A b \in FreeBlocks(H) :
          get_size(H, b) > min_block_size =>
             \A footer \in {Ld(H, W(b + get_size(H, b) - wsize))} :
                /\ footer = Ld(H, b)
                /\ extract_size(footer) = get_size(H, b)
                /\ ~extract_alloc(footer)
                /\ extract_prev_alloc(footer) = get_prev_alloc(H, b)

\* after a malloc, a free block larger than 16 bytes right behind the block
\* just allocated, and another one between two allocated blocks
C30_Witness ==
    /\ call.f = "malloc" /\ call.ret # NULL
    /\ \E b \in FreeBlocks(H) :
          /\ get_size(H, b) > min_block_size
          /\ b = find_next(H, payload_to_header(call.ret))
    /\ \E b \in FreeBlocks(H) :
          /\ get_size(H, b) > min_block_size
          /\ b < payload_to_header(call.ret)
          /\ find_next(H, b) # WalkEnd(H)

\* the links of the list l agree in h: the head has no predecessor, the last
\* block no successor, every other block is the successor of its predecessor
Linked(h, l) ==
    /\ l # <<>> => /\ get_prev_free(h, l[1]) = NULL
                   /\ get_next_free(h, l[Len(l)]) = NULL
    /\ \A k \in 2..Len(l) : /\ get_prev_free(h, l[k]) = l[k - 1]
                            /\ get_next_free(h, l[k - 1]) = l[k]

\* C31: remove_from_free(b), for a block b linked in a bucket list, removes
\* exactly b, whether b is the sole element, the head, the tail or an
\* interior element, of the minimum size or larger: the other blocks keep
\* their order, the root becomes the old second element when b was the head
\* (NULL when b was alone), the remaining links agree pairwise, and no other
\* bucket changes.
C31_RemoveExactly ==
    Initialized =>
       \A i \in Buckets : \A l \in {Bucket(H, i)} : \A k \in 1..Len(l) :
          \A h1 \in {remove_from_free(H, l[k])} :
             /\ Bucket(h1, i) = Without(l, l[k])
             /\ h1.free_root[i] = IF k > 1 THEN l[1]
                                  ELSE IF Len(l) > 1 THEN l[2] ELSE NULL
             /\ Linked(h1, Without(l, l[k]))
             /\ \A j \in Buckets \ {i} :
                   /\ h1.free_root[j] = H.free_root[j]
                   /\ Bucket(h1, j) = Bucket(H, j)
                   /\ Linked(h1, Bucket(H, j))

\* bucket 0 and a bucket of larger blocks hold three blocks each, so that a
\* head, an interior block and a tail of either kind can be removed, and
\* another bucket holds a block alone
C31_Witness ==
    /\ Initialized
    /\ Len(Bucket(H, 0)) >= 3
    /\ \E i \in Buckets \ {0} : Len(Bucket(H, i)) >= 3
    /\ \E i \in Buckets \ {0} : Len(Bucket(H, i)) = 1

\* the bits of a word above the three flag bits
AboveFlags(word) == BitAnd(word, BitNot(7))
\* h with the bits above the flags in the header of block replaced by v
WithHeaderBits(h, block, v) ==
    St(h, block, BitOr(BitAnd(Ld(h, block), 7), v))

ScanSizes == {64, 80, 96, 112}
HomeList(asize) == Bucket(H, get_seglist_ind(asize))
\* find_fit's loop over the home bucket of asize in the state between calls
Scan(asize) ==
    find_fit_scan(H, asize, H.free_root[get_seglist_ind(asize)], NULL, 0,
                  Len(H.mem))
\* the number of blocks the loop visited
Visited(s) == IF s.ret THEN s.checked + 1 ELSE s.checked
\* the places of the list l whose blocks have at least asize bytes
Fitting(l, asize) == {k \in 1..Len(l) : asize <= get_size(H, l[k])}
Least(S) == CHOOSE k \in S : \A j \in S : k <= j
\* the first among the smallest blocks at the places S of l
SmallestOf(l, S) ==
    l[Least({k \in S : \A j \in S : get_size(H, l[k]) <= get_size(H, l[j])})]

\* C33 as stated: once the loop over the home bucket has met the first
\* fitting block it visits at most 9 further blocks of the list, and it
\* answers with the smallest fitting block among those it visited.
C33_BoundedLookahead ==
    Initialized =>
       \A asize \in ScanSizes : \A l \in {HomeList(asize)} :
       \A s \in {Scan(asize)} :
          Fitting(l, asize) # {} =>
             /\ Visited(s) - Least(Fitting(l, asize)) <= 9
             /\ s.min = SmallestOf(l, {k \in Fitting(l, asize) : k <= Visited(s)})

\* C33: the loop over the home bucket counts every block it visits from the
\* head of the list, fitting or not, and returns from inside the list only
\* at a fitting block with more than 9 blocks before it, the eleventh block
\* or a later one; a list whose blocks from the eleventh on do not fit is
\* visited to its end, however long.  In both cases the answer is the first
\* among the smallest fitting blocks visited, NULL when none fits.
C33_CountsFromHead ==
    Initialized =>
       \A asize \in ScanSizes : \A l \in {HomeList(asize)} :
       \A s \in {Scan(asize)} :
          LET stops == {k \in Fitting(l, asize) : k - 1 > 9}
              last == IF stops = {} THEN Len(l) ELSE Least(stops)
              seen == {k \in Fitting(l, asize) : k <= last}
          IN  /\ s.ret = (stops # {})
              /\ Visited(s) = last
              /\ s.min = IF seen = {} THEN NULL ELSE SmallestOf(l, seen)

\* malloc(72) has taken a block from a list of thirteen blocks, and a
\* search of the twelve that are left returns at the eleventh
C33_Witness ==
    /\ prof.name = "scan" /\ call.f = "malloc" /\ call.size = 72
    /\ call.ret # NULL /\ call.log = <<>>
    /\ \E l \in {HomeList(80)} : Len(l) >= 12
    /\ \E s \in {Scan(80)} : s.ret /\ Visited(s) = 11

\* the sizes extend_heap is asked for
ExtendSizes == {8, 100, chunksize}
\* the last block of the walk, NULL when there is none
LastBlock(h) == IF Blocks(h) = <<>> THEN NULL ELSE Blocks(h)[Len(Blocks(h))]
AllButLast(l) == SubSeq(l, 1, Len(l) - 1)

\* C34: a successful extend_heap(n) grows the heap by round_up(n, 16) bytes
\* and writes the epilogue into the last word of the grown heap; the last
\* block is then a free block that ends at the epilogue and covers the new
\* bytes, begun at the old epilogue, or at the previous last block when
\* that block was free (its size is then the new bytes plus that block's),
\* and it is linked in the bucket of its size; the blocks before it stay.
C34_ExtendHeap ==
    Initialized =>
       \A old \in {Blocks(H)} : \A n \in ExtendSizes :
       \A r \in {extend_heap(H, n)} :
          r.b # NULL =>
             \A now \in {Blocks(r.h)} :
             LET last == IF old = <<>> THEN NULL ELSE old[Len(old)]
                 merged == last # NULL /\ ~get_alloc(H, last)
                 new == round_up(n, dsize)
                 size == IF merged THEN new + get_size(H, last) ELSE new
                 epilogue == mem_brk(r.h) - wsize
             IN  /\ mem_brk(r.h) = mem_brk(H) + new
                 /\ r.h.mem[Len(r.h.mem)] = pack(0, TRUE, FALSE)
                 /\ r.b = IF merged THEN last ELSE mem_brk(H) - wsize
                 /\ now = (IF merged THEN AllButLast(old) ELSE old) \o <<r.b>>
                 /\ ~get_alloc(r.h, r.b)
                 /\ get_size(r.h, r.b) = size
                 /\ find_next(r.h, r.b) = epilogue
                 /\ r.b + size = epilogue
                 /\ Bucket(r.h, get_seglist_ind(size))[1] = r.b
                 /\ \A fr \in {{b \in BlockSet(H) : ~get_alloc(H, b)}} :
                       Listed(r.h) = (fr \ {last}) \cup {r.b}

\* malloc has grown the heap by a chunk behind a free last block: the block
\* it returns begins in the first chunk and ends in the second, and the
\* last block is free
C34_Witness ==
    /\ Initialized
    /\ call.f = "malloc" /\ call.ret # NULL /\ Len(live) = 2
    /\ call.log = <<[incr |-> chunksize, ok |-> TRUE]>>
    /\ LastBlock(H) # NULL /\ ~get_alloc(H, LastBlock(H))
    /\ call.ret < mem_heap_lo + dsize + chunksize
    /\ call.ret + call.size > mem_heap_lo + dsize + chunksize

\* C35: add_to_free(b), for a free block b that is on no list, makes b the
\* head of the bucket get_seglist_ind(size of b): the blocks that were in
\* that bucket follow it in the order they had, b has no predecessor, the
\* links agree, and every other bucket is as it was.  Checked for every
\* listed block, taken off its list and added again.
C35_AddAtHead ==
    Initialized =>
       \A i \in Buckets : \A l \in {Bucket(H, i)} : \A k \in 1..Len(l) :
          \A h1 \in {remove_from_free(H, l[k])} :
          \A h2 \in {add_to_free(h1, l[k])} :
             /\ i = get_seglist_ind(get_size(h1, l[k]))
             /\ h2.free_root[i] = l[k]
             /\ Bucket(h2, i) = <<l[k]>> \o Bucket(h1, i)
             /\ Bucket(h2, i) = <<l[k]>> \o Without(l, l[k])
             /\ get_prev_free(h2, l[k]) = NULL
             /\ Linked(h2, Bucket(h2, i))
             /\ \A j \in Buckets \ {i} :
                   /\ h2.free_root[j] = h1.free_root[j]
                   /\ Bucket(h2, j) = Bucket(h1, j)
                   /\ Linked(h2, Bucket(h2, j))

\* free has put its block at the head of a bucket, before two blocks that
\* were listed, and another bucket holds a block
C35_Witness ==
    /\ Initialized
    /\ call.f = "free" /\ call.ptr # NULL
    /\ \E i \in Buckets :
          /\ Len(Bucket(H, i)) >= 3
          /\ Bucket(H, i)[1] = payload_to_header(call.ptr)
          /\ \E j \in Buckets \ {i} : H.free_root[j] # NULL

\* floor(log2(k)) for k >= 1
FloorLog2(k) == CHOOSE e \in 0..30 : Pow2(e) <= k /\ k < Pow2(e + 1)
\* block sizes in units of 16 bytes: the small ones, and those around the
\* powers of two up to 2^20 units
SizeUnits ==
    1..66 \cup UNION {{Pow2(e) - 1, Pow2(e), Pow2(e) + 1, 3 * Pow2(e - 1)} :
                         e \in 7..20}

\* C36: for every block size s that is a positive multiple of 16,
\* get_seglist_ind(s) = min(floor(log2(s / 16)), 14); 16 is the only block
\* size of bucket 0 (computed where a run starts); so it is for the sizes
\* of the blocks of the heap in every state.
C36_BucketIndex ==
    /\ call.f = "none" => \A k \in SizeUnits :
          /\ get_seglist_ind(16 * k) = min(FloorLog2(k), seglist_length - 1)
          /\ get_seglist_ind(16 * k) = 0 <=> k = 1
          /\ get_seglist_ind(16 * k) \in 0..14
    /\ \A b \in BlockSet(H) :
          /\ get_size(H, b) % 16 = 0
          /\ get_seglist_ind(get_size(H, b)) =
                min(FloorLog2(get_size(H, b) \div 16), 14)

\* blocks of 16, of 32 and of more than 2048 bytes are listed, in the
\* buckets 0, 1 and 7 or above
C36_Witness ==
    /\ Initialized
    /\ H.free_root[0] # NULL /\ H.free_root[1] # NULL
    /\ \E i \in 7..14 : H.free_root[i] # NULL
                        /\ i = FloorLog2(get_size(H, H.free_root[i]) \div 16)

\* C37: between calls every allocated block is the block of a live
\* allocation and has exactly max(round_up(n + 8, 16), 16) bytes for the n
\* bytes requested of it (by malloc, realloc or calloc): no allocated block
\* keeps an excess over its adjusted request size.
C37_ExactSize ==
    Initialized =>
       \A bs \in {BlockSet(H)} :
          /\ \A i \in LiveIdx :
                /\ payload_to_header(live[i].p) \in bs
                /\ get_alloc(H, payload_to_header(live[i].p))
                /\ get_size(H, payload_to_header(live[i].p)) = Adjusted(live[i].n)
          /\ \A b \in bs :
                get_alloc(H, b) =>
                   \E i \in LiveIdx : live[i].p = header_to_payload(b)

\* malloc has taken a listed block of 16 bytes more than the adjusted size:
\* the rest is a free block of 16 bytes behind the block it returned
C37_Witness ==
    /\ Initialized
    /\ call.f = "malloc" /\ call.ret # NULL /\ call.log = <<>>
    /\ \E b \in {payload_to_header(call.ret)} :
          /\ get_size(H, b) = Adjusted(call.size)
          /\ get_size(H, b) > min_block_size
          /\ ~get_alloc(H, find_next(H, b))
          /\ get_size(H, find_next(H, b)) = min_block_size
          /\ get_alloc(H, find_next(H, find_next(H, b)))

\* C38: a call of malloc, free, realloc or calloc changes no word of the
\* payload of a live allocation that was not passed to it, and of such an
\* allocation's header at most the previous-allocated bit, whatever the
\* call writes to headers, footers and links of the blocks around it.
C38_OtherPayloadsKept ==
    [][call'.f \in {"malloc", "free", "realloc", "calloc"}
          => \A i \in LiveIdx :
                live[i].p # call'.ptr =>
                   \A b \in {payload_to_header(live[i].p)} :
                      /\ \A k \in 1..(get_size(H, b) \div wsize - 1) :
                            Ld(Hpost, b + wsize * k) = Ld(H, b + wsize * k)
                      /\ BitAnd(Ld(Hpost, b), BitNot(alloc_prev_mask)) =
                            BitAnd(Ld(H, b), BitNot(alloc_prev_mask))]_vars

\* free has released the block in front of an allocation that holds the
\* caller's data and one behind such an allocation: the allocation's
\* previous-allocated bit is clear and its payload is as written
C38_Witness ==
    /\ call.f = "free" /\ call.ptr # NULL
    /\ \E i \in LiveIdx : \A b \in {payload_to_header(live[i].p)} :
          /\ ~get_prev_alloc(H, b)
          /\ call.ptr < live[i].p
          /\ Ld(H, live[i].p) = UserWord(live[i].p, 0)
          /\ ~get_alloc(H, find_next(H, b))

\* mm_init has succeeded: the heap holds more than the two sentinel words
HeapReady == heap_start # NULL /\ Len(mem) > 2

\* C39: whenever no allocation is live on a heap that mm_init has set up,
\* the heap is one free block that spans all bytes between the prologue and
\* the epilogue, and the 15 buckets hold that block and nothing else.
C39_AllFreedIsOneBlock ==
    HeapReady /\ live = <<>> =>
       \A size \in {mem_brk(H) - wsize - heap_start} :
          /\ Blocks(H) = <<heap_start>>
          /\ heap_start = mem_heap_lo + wsize
          /\ ~get_alloc(H, heap_start)
          /\ get_size(H, heap_start) = size
          /\ Ld(H, heap_start + size) = pack(0, TRUE, FALSE)
          /\ \A i \in Buckets :
                Bucket(H, i) = IF i = get_seglist_ind(size) THEN <<heap_start>>
                               ELSE <<>>

\* the last of several allocations has been freed on a heap of two chunks
C39_Witness ==
    /\ HeapReady /\ live = <<>>
    /\ call.f = "free" /\ call.ptr # NULL /\ call.ptr # header_to_payload(heap_start)
    /\ get_size(H, heap_start) = 2 * chunksize

\* C40: a child's job is on the job list before sigchld_handler deletes or
\* stops it: SIGCHLD, SIGINT and SIGTSTP are blocked in the parent from
\* before fork until after add_job and no handler runs in between, so the
\* handler finds a job for every child waitpid reports; outside the
\* handler's step from waitpid to its update no job is listed for a reaped
\* child; and eval does not return to the prompt while a job is in the
\* foreground.
C40_JobBeforeHandler ==
    /\ sh.pc \in {"fork", "add_job"} => sh.blocked /\ sh.hpc = "none"
    /\ sh.hpc = "update" => job_from_pid(jobs, sh.pid) # 0
    /\ \A j \in jobs :
          kids[j.pid] = "reaped" => sh.hpc = "update" /\ sh.pid = j.pid
    /\ \A k \in Pids :
          kids[k] \in {"running", "stopped", "stopping", "zombie"}
             => (sh.pc = "add_job" /\ sh.pid = k) \/ job_from_pid(jobs, k) # 0
    /\ sh.pc \in {"restore", "prompt"} => fg_job(jobs) = 0

\* the child has ended before add_job: SIGCHLD is pending and blocked, and
\* another child's job is listed
C40_Witness ==
    /\ sh.pc = "add_job" /\ sh.pid \in Pids
    /\ kids[sh.pid] = "zombie" /\ sh.chld /\ sh.blocked
    /\ jobs # {}
====
